---- MODULE Spec2Model ----
(***************************************************************************)
(* A model of the xcc compiler core: the front-end expression builders of  *)
(* fe_misc.c, the AST-to-IR lowering of codegen_expr.c and the AArch64     *)
(* function prologue of emit_code.c.                                       *)
(*                                                                         *)
(* Machine integers are 64-bit two's complement words.  A word is modelled *)
(* as the set of its one-bits (a subset of 0..63), so that the bitwise     *)
(* operators are set operators and nothing is lost to a narrower integer.  *)
(***************************************************************************)
EXTENDS Integers, Sequences, FiniteSets, TLC

VARIABLES
  expr,      \* the expression (AST) handed to the operation under study
  env,       \* run-time values of the program variables, by name
  phase,     \* position of the pipeline: which step comes next
  built,     \* front end: the expression tree the builder returned
  value,     \* front end: the value the built tree evaluated to
  cg,        \* lowering: basic blocks, bbcon order, curbb, VReg counter
  ret,       \* lowering: the VReg gen_expr returned
  pc,        \* execution of the IR: <<index into bbcon, index into the BB>>
  vregs,     \* execution of the IR: contents of the virtual registers
  flags,     \* execution of the IR: operands of the last TEST / CMP
  executed   \* execution of the IR: the instructions executed so far

vars == <<expr, env, phase, built, value, cg, ret, pc, vregs, flags, executed>>

(***************************************************************************)
(* 64-bit words                                                            *)
(***************************************************************************)

\* Fixnum is int64_t, UFixnum is uint64_t, registers are 64 bits wide.
FixnumBits == 64
\* Words are added and multiplied in limbs of this many bits.
LimbBits == 16
TARGET_CHAR_BIT == 8

Word == 0 .. (FixnumBits - 1)

RECURSIVE BvNat(_, _)
\* The bits of the natural number n, placed from bit i upwards.
BvNat(n, i) ==
  IF n = 0 THEN {}
  ELSE (IF n % 2 = 1 THEN {i} ELSE {}) \cup BvNat(n \div 2, i + 1)

RECURSIVE BvSum(_, _)
\* The natural number whose bits are s, bit lo counting as 1.
BvSum(s, lo) ==
  IF s = {} THEN 0
  ELSE LET i == CHOOSE j \in s : TRUE IN 2 ^ (i - lo) + BvSum(s \ {i}, lo)

Limb(a, k) ==
  BvSum({i \in a : k * LimbBits <= i /\ i < (k + 1) * LimbBits}, k * LimbBits)

BvNot(a) == Word \ a
\* The word of a (small) integer, negative ones in two's complement.
BvOfInt(n) == IF n >= 0 THEN BvNat(n, 0) ELSE BvNot(BvNat(-n - 1, 0))
BvAnd(a, b) == a \cap b
BvOr(a, b) == a \cup b
BvXor(a, b) == (a \ b) \cup (b \ a)
\* Keep the low w bits: zero extension from w bits.
BvZext(a, w) == {i \in a : i < w}
\* Sign extension from w bits.
BvSext(a, w) ==
  IF w > 0 /\ (w - 1) \in a
    THEN BvZext(a, w) \cup (w .. (FixnumBits - 1))
    ELSE BvZext(a, w)
BvShl(a, k) == {i + k : i \in {j \in a : j + k < FixnumBits}}
BvLshr(a, k) == {i - k : i \in {j \in a : j >= k}}

BvAddc(a, b, cin) ==
  LET M  == 2 ^ LimbBits
      s0 == Limb(a, 0) + Limb(b, 0) + cin
      s1 == Limb(a, 1) + Limb(b, 1) + s0 \div M
      s2 == Limb(a, 2) + Limb(b, 2) + s1 \div M
      s3 == Limb(a, 3) + Limb(b, 3) + s2 \div M
  IN BvNat(s0 % M, 0) \cup BvNat(s1 % M, LimbBits)
       \cup BvNat(s2 % M, 2 * LimbBits) \cup BvNat(s3 % M, 3 * LimbBits)
BvAdd(a, b) == BvAddc(a, b, 0)
BvNeg(a) == BvAddc(BvNot(a), {}, 1)
BvSub(a, b) == BvAddc(a, BvNot(b), 1)

\* a * m modulo 2^64, for a multiplier 0 <= m < 2^14 (an object size).
BvMulSmall(a, m) ==
  LET M  == 2 ^ LimbBits
      p0 == Limb(a, 0) * m
      p1 == Limb(a, 1) * m + p0 \div M
      p2 == Limb(a, 2) * m + p1 \div M
      p3 == Limb(a, 3) * m + p2 \div M
  IN BvNat(p0 % M, 0) \cup BvNat(p1 % M, LimbBits)
       \cup BvNat(p2 % M, 2 * LimbBits) \cup BvNat(p3 % M, 3 * LimbBits)

\* The unsigned quotient a / d, for a divisor 0 < d < 2^14.
BvUdivSmall(a, d) ==
  LET M  == 2 ^ LimbBits
      c3 == Limb(a, 3)
      c2 == (c3 % d) * M + Limb(a, 2)
      c1 == (c2 % d) * M + Limb(a, 1)
      c0 == (c1 % d) * M + Limb(a, 0)
  IN BvNat(c0 \div d, 0) \cup BvNat(c1 \div d, LimbBits)
       \cup BvNat(c2 \div d, 2 * LimbBits) \cup BvNat(c3 \div d, 3 * LimbBits)

BvIsNeg(a) == (FixnumBits - 1) \in a
\* The signed quotient a / d, truncated towards zero, for 0 < d < 2^14.
BvSdivSmall(a, d) ==
  IF BvIsNeg(a) THEN BvNeg(BvUdivSmall(BvNeg(a), d)) ELSE BvUdivSmall(a, d)

BvUlt(a, b) ==
  LET d == BvXor(a, b)
  IN d /= {} /\ (CHOOSE x \in d : \A y \in d : y <= x) \in b
BvSlt(a, b) ==
  BvUlt(BvXor(a, {FixnumBits - 1}), BvXor(b, {FixnumBits - 1}))

\* A value brought to the width and signedness of a type of `size' bytes.
wrap_value(v, size, is_unsigned) ==
  IF is_unsigned THEN BvZext(v, size * TARGET_CHAR_BIT)
  ELSE BvSext(v, size * TARGET_CHAR_BIT)

\* F applied to the value of x: x is evaluated once, before F is entered.
Bind(x, F(_)) == CHOOSE r \in {F(v) : v \in {x}} : TRUE

(***************************************************************************)
(* Types and virtual registers  (codegen_expr.c)                           *)
(***************************************************************************)

FixnumType(size, is_unsigned) ==
  [kind |-> "TY_FIXNUM", size |-> size, align |-> size, is_unsigned |-> is_unsigned,
   elem |-> 0]
\* A pointer to objects of `elem' bytes.
PtrType(elem) ==
  [kind |-> "TY_PTR", size |-> 8, align |-> 8, is_unsigned |-> TRUE, elem |-> elem]
StructType(size, align) ==
  [kind |-> "TY_STRUCT", size |-> size, align |-> align, is_unsigned |-> TRUE,
   elem |-> 0]

tyBool == FixnumType(1, FALSE)
tyChar == FixnumType(1, FALSE)
tyInt == FixnumType(4, FALSE)
tyUInt == FixnumType(4, TRUE)
tyLong == FixnumType(8, FALSE)
tySize == FixnumType(8, TRUE)
tySSize == FixnumType(8, FALSE)

type_size(type) == type.size
align_size(type) == type.align

to_vtype(type) ==
  [size  |-> type_size(type),
   align |-> align_size(type),
   is_unsigned |-> IF type.kind = "TY_FIXNUM" THEN type.is_unsigned ELSE TRUE]

\* A VReg: a constant carries its literal, any other one its number.
new_const_vreg(fixnum, vtype) ==
  [const |-> TRUE, virt |-> -1, fixnum |-> fixnum, vtype |-> vtype]
VRegOf(virt, vtype) ==
  [const |-> FALSE, virt |-> virt, fixnum |-> {}, vtype |-> vtype]

\* The local variables of the function under study, each with its VReg
\* (varinfo->reg): the variable at position k has VReg k - 1.
LocalVars == <<"x", "y", "p", "i", "c", "n", "s", "t">>
VarIndex(name) == CHOOSE k \in 1 .. Len(LocalVars) : LocalVars[k] = name
VarReg(name, type) == VRegOf(VarIndex(name) - 1, to_vtype(type))

(***************************************************************************)
(* The IR under construction  (ir.c: bb_split, set_curbb, new_ir_mov, ..)  *)
(***************************************************************************)

\* Condition kinds, in the order of the enumeration.
COND_ANY == 0
COND_EQ == 1
COND_NE == 2
COND_LT == 3
COND_LE == 4
COND_GE == 5
COND_GT == 6
COND_ULT == 7
COND_ULE == 8
COND_UGE == 9
COND_UGT == 10

\* Comparison expression kinds, in the order of the enumeration.
CmpKinds == <<"EX_EQ", "EX_NE", "EX_LT", "EX_LE", "EX_GE", "EX_GT">>
CmpIndex(kind) == CHOOSE k \in 1 .. Len(CmpKinds) : CmpKinds[k] = kind

\* The state of the code generator at function entry: one empty BB, which
\* is the current one, and the VRegs of the local variables allocated.
CgInit ==
  [bbs   |-> << [irs |-> <<>>, next |-> 0] >>,
   order |-> <<1>>,
   curbb |-> 1,
   nvreg |-> Len(LocalVars),
   nprecall |-> 0,
   errors |-> 0]

\* bb_split(bb): a new BB linked in right after bb.
bb_split(g, bb) ==
  LET n == Len(g.bbs) + 1
  IN [g EXCEPT !.bbs = Append([g.bbs EXCEPT ![bb].next = n],
                              [irs |-> <<>>, next |-> g.bbs[bb].next])]
\* The label bb_split gives the BB it creates.
NewBB(g) == Len(g.bbs) + 1

\* set_curbb(bb): bb becomes current and is appended to the BB container.
set_curbb(g, bb) == [g EXCEPT !.curbb = bb, !.order = Append(g.order, bb)]

\* An instruction is appended to the current BB.  `org' records which
\* operand of the expression under study the instruction was emitted for.
EmitIR(g, ir) == [g EXCEPT !.bbs[g.curbb].irs = Append(@, ir)]

NoReg == new_const_vreg({}, to_vtype(tyInt))
IR(op, dst, opr1, opr2, cond, bb, org) ==
  [op |-> op, dst |-> dst, opr1 |-> opr1, opr2 |-> opr2, cond |-> cond,
   bb |-> bb, org |-> org]

new_ir_mov(g, dst, src, org) == EmitIR(g, IR("IR_MOV", dst, src, NoReg, COND_ANY, 0, org))
new_ir_test(g, reg, org) == EmitIR(g, IR("IR_TEST", NoReg, reg, NoReg, COND_ANY, 0, org))
new_ir_cmp(g, opr1, opr2, org) ==
  EmitIR(g, IR("IR_CMP", NoReg, opr1, opr2, COND_ANY, 0, org))
new_ir_jmp(g, cond, bb, org) == EmitIR(g, IR("IR_JMP", NoReg, NoReg, NoReg, cond, bb, org))

\* add_new_reg(type): a fresh VReg from the allocator of the function.
add_new_reg(g, type) ==
  [cg |-> [g EXCEPT !.nvreg = @ + 1], reg |-> VRegOf(g.nvreg, to_vtype(type))]

\* new_ir_cond(cond): the flags materialised as 0/1 in a fresh VReg.
new_ir_cond(g, cond, org) ==
  Bind(add_new_reg(g, tyBool), LAMBDA r :
    [cg  |-> EmitIR(r.cg, IR("IR_COND", r.reg, NoReg, NoReg, cond, 0, org)),
     reg |-> r.reg])

\* new_ir_unary / new_ir_bop: dst = op opr1 [opr2], computed in vtype.
new_ir_unary(g, op, opr, vtype, org) ==
  LET dst == VRegOf(g.nvreg, vtype)
  IN [cg  |-> EmitIR([g EXCEPT !.nvreg = @ + 1],
                     IR(op, dst, opr, NoReg, COND_ANY, 0, org)),
      reg |-> dst]
new_ir_bop(g, op, opr1, opr2, vtype, org) ==
  LET dst == VRegOf(g.nvreg, vtype)
  IN [cg  |-> EmitIR([g EXCEPT !.nvreg = @ + 1],
                     IR(op, dst, opr1, opr2, COND_ANY, 0, org)),
      reg |-> dst]

(***************************************************************************)
(* Expressions (AST)                                                       *)
(***************************************************************************)

new_expr_fixlit(type, fixnum) == [kind |-> "EX_FIXNUM", type |-> type, fixnum |-> fixnum]
new_expr_variable(name, type) == [kind |-> "EX_VARIABLE", type |-> type, name |-> name]
new_expr_bop(kind, type, lhs, rhs) == [kind |-> kind, type |-> type, lhs |-> lhs, rhs |-> rhs]
new_expr_unary(kind, type, sub) == [kind |-> kind, type |-> type, sub |-> sub]
new_expr_ternary(type, cond, tval, fval) ==
  [kind |-> "EX_TERNARY", type |-> type, cond |-> cond, tval |-> tval, fval |-> fval]

is_im32(v) == BvSext(v, 32) = v

\* The operand of the expression under study an instruction belongs to:
\* the side is fixed where the top expression hands over to an operand.
Side(org, side) == IF org = "top" THEN side ELSE org

(***************************************************************************)
(* codegen_expr.c: gen_compare_expr, gen_cond_jmp, gen_ternary, gen_expr   *)
(***************************************************************************)

\* swap_cond that leaves the condition as it is.
swap_cond_same(cond) == cond

swap_cond(cond) ==
  IF cond >= COND_LT THEN COND_GT - (cond - COND_LT) ELSE cond

RECURSIVE gen_expr(_, _, _)
RECURSIVE gen_cond_jmp(_, _, _, _, _)

gen_compare_expr(g, kind, lhs0, rhs0, org) ==
  LET cond0 == COND_EQ + (CmpIndex(kind) - CmpIndex("EX_EQ"))
      swap  == rhs0.kind /= "EX_FIXNUM" /\ lhs0.kind = "EX_FIXNUM"
      lhs   == IF swap THEN rhs0 ELSE lhs0
      rhs   == IF swap THEN lhs0 ELSE rhs0
      cond1 == IF swap THEN swap_cond(cond0) ELSE cond0
      cond  == IF cond1 > COND_NE /\ (lhs.type.kind /= "TY_FIXNUM" \/ lhs.type.is_unsigned)
                 THEN cond1 + (COND_ULT - COND_LT) ELSE cond1
  IN Bind(gen_expr(g, lhs, org), LAMBDA l :
       IF rhs.kind = "EX_FIXNUM" /\ rhs.fixnum = {} /\ cond \in {COND_EQ, COND_NE}
         THEN [cg |-> new_ir_test(l.cg, l.reg, org), cond |-> cond]
       ELSE IF rhs.kind = "EX_FIXNUM" /\ (type_size(lhs.type) /= 8 \/ is_im32(rhs.fixnum))
         THEN [cg   |-> new_ir_cmp(l.cg, l.reg,
                                   new_const_vreg(rhs.fixnum, to_vtype(rhs.type)), org),
               cond |-> cond]
       ELSE Bind(gen_expr(l.cg, rhs, org), LAMBDA r :
            Bind(add_new_reg(r.cg, lhs.type), LAMBDA t :
              [cg   |-> new_ir_cmp(new_ir_mov(t.cg, t.reg, l.reg, org), t.reg, r.reg, org),
               cond |-> cond])))

\* The jump gen_cond_jmp emits after a comparison whose positive form is
\* `pos' and whose negation is `neg'.
CondJmpPair(g, kind, tf, pos, neg, bb, org) ==
  LET tf1 == IF kind /= pos THEN ~tf ELSE tf
  IN new_ir_jmp(g, IF tf1 THEN pos ELSE neg, bb, org)

gen_cond_jmp(g, cond, tf, bb, org) ==
  CASE cond.kind = "EX_FIXNUM" ->
         LET tf1 == IF cond.fixnum = {} THEN ~tf ELSE tf
         IN IF tf1 THEN new_ir_jmp(g, COND_ANY, bb, org) ELSE g
    [] cond.kind \in {"EX_EQ", "EX_NE"} ->
         Bind(gen_compare_expr(g, cond.kind, cond.lhs, cond.rhs, org), LAMBDA c :
           CondJmpPair(c.cg, c.cond, tf, COND_EQ, COND_NE, bb, org))
    [] cond.kind \in {"EX_LT", "EX_GT", "EX_LE", "EX_GE"} ->
         Bind(gen_compare_expr(g, cond.kind, cond.lhs, cond.rhs, org), LAMBDA c :
           CASE c.cond \in {COND_LT, COND_GE} ->
                  CondJmpPair(c.cg, c.cond, tf, COND_LT, COND_GE, bb, org)
             [] c.cond \in {COND_GT, COND_LE} ->
                  CondJmpPair(c.cg, c.cond, tf, COND_GT, COND_LE, bb, org)
             [] c.cond \in {COND_ULT, COND_UGE} ->
                  CondJmpPair(c.cg, c.cond, tf, COND_ULT, COND_UGE, bb, org)
             [] c.cond \in {COND_UGT, COND_ULE} ->
                  CondJmpPair(c.cg, c.cond, tf, COND_UGT, COND_ULE, bb, org))
    [] cond.kind = "EX_NOT" -> gen_cond_jmp(g, cond.sub, ~tf, bb, org)
    [] cond.kind = "EX_LOGAND" ->
         \* bb1 and bb2 are the BBs the two bb_split calls create in turn.
         LET bb1 == NewBB(g)
             bb2 == NewBB(g) + 1
         IN Bind(bb_split(bb_split(g, g.curbb), bb1), LAMBDA g2 :
              IF ~tf
                THEN set_curbb(gen_cond_jmp(
                                 set_curbb(gen_cond_jmp(g2, cond.lhs, FALSE, bb, Side(org, "lhs")), bb1),
                                 cond.rhs, FALSE, bb, Side(org, "rhs")),
                               bb2)
                ELSE set_curbb(gen_cond_jmp(
                                 set_curbb(gen_cond_jmp(g2, cond.lhs, FALSE, bb2, Side(org, "lhs")), bb1),
                                 cond.rhs, TRUE, bb, Side(org, "rhs")),
                               bb2))
    [] cond.kind = "EX_LOGIOR" ->
         LET bb1 == NewBB(g)
             bb2 == NewBB(g) + 1
         IN Bind(bb_split(bb_split(g, g.curbb), bb1), LAMBDA g2 :
              IF tf
                THEN set_curbb(gen_cond_jmp(
                                 set_curbb(gen_cond_jmp(g2, cond.lhs, TRUE, bb, Side(org, "lhs")), bb1),
                                 cond.rhs, TRUE, bb, Side(org, "rhs")),
                               bb2)
                ELSE set_curbb(gen_cond_jmp(
                                 set_curbb(gen_cond_jmp(g2, cond.lhs, TRUE, bb2, Side(org, "lhs")), bb1),
                                 cond.rhs, FALSE, bb, Side(org, "rhs")),
                               bb2))
    [] cond.kind = "EX_GROUP" -> gen_cond_jmp(g, cond.sub, tf, bb, org)
    [] OTHER ->
         Bind(gen_expr(g, cond, org), LAMBDA r :
           new_ir_jmp(new_ir_test(r.cg, r.reg, org),
                      IF tf THEN COND_NE ELSE COND_EQ, bb, org))

\* gen_ternary without the jump from the true arm to the join block.
gen_ternary_nojmp(g, e, org) ==
  \* tbb, fbb and nbb are the BBs the three bb_split calls create in turn.
  LET tbb == NewBB(g)
      fbb == NewBB(g) + 1
      nbb == NewBB(g) + 2
  IN Bind(add_new_reg(bb_split(bb_split(bb_split(g, g.curbb), tbb), fbb), e.type),
          LAMBDA res :
     Bind(gen_expr(set_curbb(gen_cond_jmp(res.cg, e.cond, FALSE, fbb, Side(org, "cond")),
                             tbb),
                   e.tval, Side(org, "tval")),
          LAMBDA t :
     Bind(gen_expr(set_curbb(new_ir_mov(t.cg, res.reg, t.reg, Side(org, "tval")), fbb),
                   e.fval, Side(org, "fval")),
          LAMBDA f :
       [cg  |-> set_curbb(new_ir_mov(f.cg, res.reg, f.reg, Side(org, "fval")), nbb),
        reg |-> res.reg])))

gen_ternary(g, e, org) ==
  \* tbb, fbb and nbb are the BBs the three bb_split calls create in turn.
  LET tbb == NewBB(g)
      fbb == NewBB(g) + 1
      nbb == NewBB(g) + 2
  IN Bind(add_new_reg(bb_split(bb_split(bb_split(g, g.curbb), tbb), fbb), e.type),
          LAMBDA res :
     Bind(gen_expr(set_curbb(gen_cond_jmp(res.cg, e.cond, FALSE, fbb, Side(org, "cond")),
                             tbb),
                   e.tval, Side(org, "tval")),
          LAMBDA t :
     Bind(gen_expr(set_curbb(new_ir_jmp(new_ir_mov(t.cg, res.reg, t.reg, Side(org, "tval")),
                                        COND_ANY, nbb, Side(org, "tval")),
                             fbb),
                   e.fval, Side(org, "fval")),
          LAMBDA f :
       [cg  |-> set_curbb(new_ir_mov(f.cg, res.reg, f.reg, Side(org, "fval")), nbb),
        reg |-> res.reg])))

\* gen_logical with the sense of the jump on the second operand inverted.
gen_logical_rhsflip(g, e, tf, org) ==
  LET bb1     == NewBB(g)
      bb2     == NewBB(g) + 1
      sink    == NewBB(g) + 2
      next_bb == NewBB(g) + 3
      vtbool  == to_vtype(tyBool)
  IN Bind(add_new_reg(
            set_curbb(
              gen_cond_jmp(
                set_curbb(
                  gen_cond_jmp(
                    bb_split(bb_split(bb_split(bb_split(g, g.curbb), bb1), bb2), sink),
                    e.lhs, tf, sink, Side(org, "lhs")),
                  bb1),
                e.rhs, ~tf, sink, Side(org, "rhs")),
              bb2),
            tyBool),
          LAMBDA res :
       [cg  |-> set_curbb(
                  new_ir_mov(
                    set_curbb(
                      new_ir_jmp(
                        new_ir_mov(res.cg, res.reg,
                                   new_const_vreg(IF tf THEN {} ELSE {0}, vtbool),
                                   Side(org, "self")),
                        COND_ANY, next_bb, Side(org, "self")),
                      sink),
                    res.reg, new_const_vreg(IF tf THEN {0} ELSE {}, vtbool),
                    Side(org, "self")),
                  next_bb),
        reg |-> res.reg])

\* gen_expr for `a && b' (sink = false_bb) and `a || b' (sink = true_bb):
\* `tf' is the truth value of an operand that decides the result at once.
gen_logical(g, e, tf, org) ==
  \* bb1, bb2, sink and next_bb are the BBs the four bb_split calls create
  \* in turn.
  LET bb1     == NewBB(g)
      bb2     == NewBB(g) + 1
      sink    == NewBB(g) + 2
      next_bb == NewBB(g) + 3
      vtbool  == to_vtype(tyBool)
  IN Bind(add_new_reg(
            set_curbb(
              gen_cond_jmp(
                set_curbb(
                  gen_cond_jmp(
                    bb_split(bb_split(bb_split(bb_split(g, g.curbb), bb1), bb2), sink),
                    e.lhs, tf, sink, Side(org, "lhs")),
                  bb1),
                e.rhs, tf, sink, Side(org, "rhs")),
              bb2),
            tyBool),
          LAMBDA res :
       [cg  |-> set_curbb(
                  new_ir_mov(
                    set_curbb(
                      new_ir_jmp(
                        new_ir_mov(res.cg, res.reg,
                                   new_const_vreg(IF tf THEN {} ELSE {0}, vtbool),
                                   Side(org, "self")),
                        COND_ANY, next_bb, Side(org, "self")),
                      sink),
                    res.reg, new_const_vreg(IF tf THEN {0} ELSE {}, vtbool),
                    Side(org, "self")),
                  next_bb),
        reg |-> res.reg])

(***************************************************************************)
(* codegen_expr.c: gen_funcall                                             *)
(***************************************************************************)

MAX_REG_ARGS == 8
WORD_SIZE == 8

ALIGN(x, align) == ((x + align - 1) \div align) * align

is_stack_param(type) == type.kind = "TY_STRUCT"

\* A function designator: a global function (called by label) or a local
\* pointer variable (called through a register).
FuncType(vaargs) ==
  [kind |-> "TY_FUNC", size |-> 1, align |-> 1, is_unsigned |-> TRUE, elem |-> 0,
   vaargs |-> vaargs]
\* `tag' identifies the call expression (the Expr object).
new_expr_funcall(tag, type, func, args) ==
  [kind |-> "EX_FUNCALL", type |-> type, func |-> func, args |-> args, tag |-> tag]

\* ArgInfo of the returned value (gen_funcall, ret_info).
RetInfo(e) ==
  IF is_stack_param(e.type)
    THEN [reg_index |-> 0, offset |-> 0, stack_arg |-> TRUE, size |-> type_size(e.type)]
    ELSE [reg_index |-> -1, offset |-> -1, stack_arg |-> FALSE, size |-> type_size(e.type)]

\* One iteration of the loop `Check stack arguments': acc carries
\* arg_infos, reg_index, offset, stack_arg_count and the diagnostics.
CheckStackArg_noalign(arg, vaargs, acc) ==
  LET stack == is_stack_param(arg.type)
      size  == type_size(arg.type)
  IN IF stack \/ acc.reg_index >= MAX_REG_ARGS
       THEN LET off == acc.offset
            IN [acc EXCEPT
                  !.infos = Append(@, [reg_index |-> -1, offset |-> off,
                                       stack_arg |-> stack, size |-> size]),
                  !.offset = off + size,
                  !.stack_arg_count = @ + 1,
                  !.errors = IF acc.reg_index >= MAX_REG_ARGS /\ vaargs THEN @ + 1 ELSE @]
       ELSE [acc EXCEPT
               !.infos = Append(@, [reg_index |-> acc.reg_index, offset |-> -1,
                                    stack_arg |-> FALSE, size |-> size]),
               !.reg_index = @ + 1]

CheckStackArg(arg, vaargs, acc) ==
  LET stack == is_stack_param(arg.type)
      size  == type_size(arg.type)
  IN IF stack \/ acc.reg_index >= MAX_REG_ARGS
       THEN LET off == ALIGN(acc.offset, align_size(arg.type))
            IN [acc EXCEPT
                  !.infos = Append(@, [reg_index |-> -1, offset |-> off,
                                       stack_arg |-> stack, size |-> size]),
                  !.offset = off + size,
                  !.stack_arg_count = @ + 1,
                  !.errors = IF acc.reg_index >= MAX_REG_ARGS /\ vaargs THEN @ + 1 ELSE @]
       ELSE [acc EXCEPT
               !.infos = Append(@, [reg_index |-> acc.reg_index, offset |-> -1,
                                    stack_arg |-> FALSE, size |-> size]),
               !.reg_index = @ + 1]

\* The loop from argument i on.
RECURSIVE CheckStackArgs(_, _, _, _)
CheckStackArgs(args, vaargs, i, acc) ==
  IF i > Len(args) THEN acc
  ELSE Bind(CheckStackArg(args[i], vaargs, acc),
            LAMBDA a : CheckStackArgs(args, vaargs, i + 1, a))

\* The argument layout gen_funcall computes before it emits PRECALL.
funcall_layout(e) ==
  LET ret_info == RetInfo(e)
      vaargs   == e.func.type.kind = "TY_FUNC" /\ e.func.type.vaargs
  IN Bind(CheckStackArgs(e.args, vaargs, 1,
                         [infos |-> <<>>,
                          reg_index |-> IF ret_info.stack_arg THEN 1 ELSE 0,
                          offset |-> IF ret_info.stack_arg THEN ret_info.size ELSE 0,
                          stack_arg_count |-> 0,
                          errors |-> 0]),
          LAMBDA acc :
       [ret_info |-> ret_info, infos |-> acc.infos,
        stack_arg_count |-> acc.stack_arg_count,
        offset |-> ALIGN(acc.offset, 8), errors |-> acc.errors])

\* Emitters of the call instructions (ir.c).  `call' and `arg' record the
\* call expression and the argument an instruction was emitted for.
new_ir_precall(g, arg_count, stack_args_size, call, org) ==
  EmitIR([g EXCEPT !.nprecall = @ + 1],
         [op |-> "IR_PRECALL", id |-> g.nprecall, arg_count |-> arg_count,
          stack_args_size |-> stack_args_size, call |-> call, org |-> org])
new_ir_addsp(g, v, org) == EmitIR(g, [op |-> "IR_ADDSP", value |-> v, org |-> org])
new_ir_pusharg(g, reg, vtype, call, arg, org) ==
  EmitIR(g, [op |-> "IR_PUSHARG", opr1 |-> reg, vtype |-> vtype, call |-> call,
             arg |-> arg, org |-> org])
new_ir_sofs(g, src, org) == new_ir_unary(g, "IR_SOFS", src, to_vtype(PtrType(1)), org)
new_ir_bofs(g, src, org) == new_ir_unary(g, "IR_BOFS", src, to_vtype(PtrType(1)), org)
new_ir_memcpy(g, dst, src, size, call, arg, org) ==
  EmitIR(g, [op |-> "IR_MEMCPY", opr1 |-> dst, opr2 |-> src, size |-> size, call |-> call,
             arg |-> arg, org |-> org])
new_ir_store(g, dst, src, call, arg, org) ==
  EmitIR(g, [op |-> "IR_STORE", opr1 |-> dst, opr2 |-> src, call |-> call, arg |-> arg,
             org |-> org])
new_ir_call(g, label, freg, reg_arg_count, vtype, precall, call, org) ==
  LET dst == VRegOf(g.nvreg, vtype)
  IN [cg  |-> EmitIR([g EXCEPT !.nvreg = @ + 1],
                     [op |-> "IR_CALL", dst |-> dst, label |-> label, opr1 |-> freg,
                      reg_arg_count |-> reg_arg_count, precall |-> precall,
                      call |-> call, org |-> org]),
      reg |-> dst]

OffsetType == [size |-> 4, align |-> 4, is_unsigned |-> FALSE]

\* gen_funcall_arg that leaves out the store of a scalar stack argument.
gen_funcall_arg_dropped(g, e, infos, i, reg_arg_count, org) ==
  LET arg == e.args[i]
      p   == infos[i]
  IN Bind(gen_expr(g, arg, org), LAMBDA r :
       IF p.offset < 0
         THEN [cg |-> new_ir_pusharg(r.cg, r.reg, to_vtype(arg.type), e.tag, i, org),
               reg_arg_count |-> reg_arg_count + 1]
         ELSE Bind(new_ir_sofs(r.cg,
                               new_const_vreg(BvOfInt(p.offset + reg_arg_count * WORD_SIZE),
                                              OffsetType),
                               org),
                   LAMBDA dst :
                IF p.stack_arg
                  THEN [cg |-> new_ir_memcpy(dst.cg, dst.reg, r.reg, type_size(arg.type),
                                             e.tag, i, org),
                        reg_arg_count |-> reg_arg_count]
                ELSE [cg |-> dst.cg, reg_arg_count |-> reg_arg_count]))

\* The body of the loop over the arguments for argument i: yields the
\* generator state and reg_arg_count.
gen_funcall_arg(g, e, infos, i, reg_arg_count, org) ==
  LET arg == e.args[i]
      p   == infos[i]
  IN Bind(gen_expr(g, arg, org), LAMBDA r :
       IF p.offset < 0
         THEN [cg |-> new_ir_pusharg(r.cg, r.reg, to_vtype(arg.type), e.tag, i, org),
               reg_arg_count |-> reg_arg_count + 1]
         ELSE Bind(new_ir_sofs(r.cg,
                               new_const_vreg(BvOfInt(p.offset + reg_arg_count * WORD_SIZE),
                                              OffsetType),
                               org),
                   LAMBDA dst :
                IF p.stack_arg
                  THEN [cg |-> new_ir_memcpy(dst.cg, dst.reg, r.reg, type_size(arg.type),
                                             e.tag, i, org),
                        reg_arg_count |-> reg_arg_count]
                ELSE IF r.reg.const
                  THEN Bind(add_new_reg(dst.cg, arg.type), LAMBDA tmp :
                         [cg |-> new_ir_store(new_ir_mov(tmp.cg, tmp.reg, r.reg, org),
                                              dst.reg, tmp.reg, e.tag, i, org),
                          reg_arg_count |-> reg_arg_count])
                ELSE [cg |-> new_ir_store(dst.cg, dst.reg, r.reg, e.tag, i, org),
                      reg_arg_count |-> reg_arg_count]))

\* The loop over the arguments, last to first, from argument i down.
RECURSIVE gen_funcall_args(_, _, _, _, _, _)
gen_funcall_args(g, e, infos, i, reg_arg_count, org) ==
  IF i < 1 THEN [cg |-> g, reg_arg_count |-> reg_arg_count]
  ELSE Bind(gen_funcall_arg(g, e, infos, i, reg_arg_count, org),
            LAMBDA a : gen_funcall_args(a.cg, e, infos, i - 1, a.reg_arg_count, org))


\* The hidden argument of a call that returns a struct: the address of the
\* return buffer, pushed after the declared arguments.  `a' is the state
\* after the loop over the arguments.
gen_funcall_ret(a, e, ret_info, org) ==
  IF ret_info.stack_arg
    THEN Bind(new_ir_sofs(a.cg,
                          new_const_vreg(BvOfInt(ret_info.offset
                                                 + a.reg_arg_count * WORD_SIZE),
                                         OffsetType),
                          org),
              LAMBDA dst :
           [cg |-> new_ir_pusharg(dst.cg, dst.reg, to_vtype(PtrType(type_size(e.type))),
                                  e.tag, 0, org),
            reg_arg_count |-> a.reg_arg_count + 1])
    ELSE a

\* gen_funcall whose CALL refers to the PRECALL emitted last.
gen_funcall_lastprecall(g, e, org) ==
  Bind(funcall_layout(e), LAMBDA lay :
  Bind(new_ir_precall([g EXCEPT !.errors = @ + lay.errors],
                      Len(e.args) - lay.stack_arg_count, lay.offset, e.tag, org),
       LAMBDA g1 :
  Bind(gen_funcall_args(IF lay.offset > 0 THEN new_ir_addsp(g1, -lay.offset, org) ELSE g1,
                        e, lay.infos, Len(e.args), 0, org),
       LAMBDA a :
  Bind(gen_funcall_ret(a, e, lay.ret_info, org), LAMBDA r :
    LET precall   == r.cg.nprecall - 1
        ret_vtype == IF lay.ret_info.stack_arg THEN to_vtype(PtrType(type_size(e.type)))
                     ELSE to_vtype(e.type)
    IN IF e.func.type.kind = "TY_FUNC"
         THEN new_ir_call(r.cg, e.func.name, NoReg, r.reg_arg_count, ret_vtype, precall,
                          e.tag, org)
         ELSE Bind(gen_expr(r.cg, e.func, org), LAMBDA f :
                new_ir_call(f.cg, "", f.reg, r.reg_arg_count, ret_vtype, precall,
                            e.tag, org))))))

gen_funcall(g, e, org) ==
  Bind(funcall_layout(e), LAMBDA lay :
  Bind(new_ir_precall([g EXCEPT !.errors = @ + lay.errors],
                      Len(e.args) - lay.stack_arg_count, lay.offset, e.tag, org),
       LAMBDA g1 :
  Bind(gen_funcall_args(IF lay.offset > 0 THEN new_ir_addsp(g1, -lay.offset, org) ELSE g1,
                        e, lay.infos, Len(e.args), 0, org),
       LAMBDA a :
  Bind(gen_funcall_ret(a, e, lay.ret_info, org), LAMBDA r :
    LET precall   == g.nprecall
        ret_vtype == IF lay.ret_info.stack_arg THEN to_vtype(PtrType(type_size(e.type)))
                     ELSE to_vtype(e.type)
    IN IF e.func.type.kind = "TY_FUNC"
         THEN new_ir_call(r.cg, e.func.name, NoReg, r.reg_arg_count, ret_vtype, precall,
                          e.tag, org)
         ELSE Bind(gen_expr(r.cg, e.func, org), LAMBDA f :
                new_ir_call(f.cg, "", f.reg, r.reg_arg_count, ret_vtype, precall,
                            e.tag, org))))))

(***************************************************************************)
(* codegen_expr.c: gen_ptradd                                              *)
(***************************************************************************)

IS_POWER_OF_2(x) == x \in {1, 2, 4, 8, 16, 32, 64, 128, 256, 512, 1024}

\* new_ir_ptradd(offset, base, index, scale, vtype): dst = base +
\* index * scale + offset; index is NoReg when there is none.
new_ir_ptradd(g, offset, base, index, scale, vtype, org) ==
  LET dst == VRegOf(g.nvreg, vtype)
  IN [cg  |-> EmitIR([g EXCEPT !.nvreg = @ + 1],
                     [op |-> "IR_PTRADD", dst |-> dst, opr1 |-> base, opr2 |-> index,
                      scale |-> scale, offset |-> offset, org |-> org]),
      reg |-> dst]

new_ir_cast(g, reg, vtype, org) == new_ir_unary(g, "IR_CAST", reg, vtype, org)

RECURSIVE StripCasts(_)
StripCasts(e) == IF e.kind = "EX_CAST" THEN StripCasts(e.sub) ELSE e

is_const(e) == e.kind = "EX_FIXNUM"

gen_ptradd(g, kind, type, lreg, rhs, org) ==
  LET scale   == type.elem
      raw_rhs == StripCasts(rhs)
      mul     == scale > 8 \/ ~IS_POWER_OF_2(scale)
  IN IF is_const(raw_rhs)
       THEN LET rval == IF kind = "EX_PTRSUB" THEN BvNeg(raw_rhs.fixnum)
                        ELSE raw_rhs.fixnum
            IN new_ir_ptradd(g, BvMulSmall(rval, scale), lreg, NoReg, 1, to_vtype(type),
                             org)
       ELSE Bind(gen_expr(g, rhs, org), LAMBDA r :
            Bind(IF kind = "EX_PTRSUB"
                   THEN new_ir_unary(r.cg, "IR_NEG", r.reg, to_vtype(rhs.type), org)
                   ELSE Bind(add_new_reg(r.cg, rhs.type), LAMBDA tmp :
                          [cg  |-> new_ir_mov(tmp.cg, tmp.reg, r.reg, org),
                           reg |-> tmp.reg]),
                 LAMBDA r1 :
            Bind(IF mul
                   THEN new_ir_bop(r1.cg, "IR_MUL", r1.reg,
                                   new_const_vreg(BvOfInt(scale), to_vtype(rhs.type)),
                                   to_vtype(rhs.type), org)
                   ELSE r1,
                 LAMBDA r2 :
            Bind(new_ir_cast(r2.cg, r2.reg, to_vtype(tySize), org), LAMBDA r3 :
              new_ir_ptradd(r3.cg, {}, lreg, r3.reg, IF mul THEN 1 ELSE scale,
                            to_vtype(type), org)))))

\* gen_variable: a scalar local lives in its VReg; a struct is handled as
\* a pointer to its frame slot.
gen_variable(g, e, org) ==
  IF e.type.kind \in {"TY_FIXNUM", "TY_PTR"}
    THEN [cg |-> g, reg |-> VarReg(e.name, e.type)]
    ELSE new_ir_bofs(g, VarReg(e.name, e.type), org)

gen_expr(g, e, org) ==
  CASE e.kind = "EX_FIXNUM" ->
         [cg |-> g, reg |-> new_const_vreg(e.fixnum, to_vtype(e.type))]
    [] e.kind = "EX_VARIABLE" -> gen_variable(g, e, org)
    [] e.kind = "EX_FUNCALL" -> gen_funcall(g, e, org)
    [] e.kind \in {"EX_PTRADD", "EX_PTRSUB"} ->
         Bind(gen_expr(g, e.lhs, org), LAMBDA l :
           gen_ptradd(l.cg, e.kind, e.type, l.reg, e.rhs, org))
    [] e.kind = "EX_GROUP" -> gen_expr(g, e.sub, org)
    [] e.kind = "EX_TERNARY" -> gen_ternary(g, e, org)
    [] e.kind = "EX_NOT" ->
         Bind(gen_expr(g, e.sub, org), LAMBDA r :
           new_ir_unary(r.cg, "IR_NOT", r.reg, to_vtype(e.type), org))
    [] e.kind \in {"EX_EQ", "EX_NE", "EX_LT", "EX_GT", "EX_LE", "EX_GE"} ->
         Bind(gen_compare_expr(g, e.kind, e.lhs, e.rhs, org), LAMBDA c :
           new_ir_cond(c.cg, c.cond, org))
    [] e.kind = "EX_LOGAND" -> gen_logical(g, e, FALSE, org)
    [] e.kind = "EX_LOGIOR" -> gen_logical(g, e, TRUE, org)

(***************************************************************************)
(* Execution of the emitted IR.  Basic blocks are laid out in the order    *)
(* set_curbb appended them; control falls through from one to the next.    *)
(***************************************************************************)

Bits(vtype) == vtype.size * TARGET_CHAR_BIT

\* The value a VReg of the given vtype holds after v is written to it.
RegNorm(v, vtype) == wrap_value(v, vtype.size, vtype.is_unsigned)

RegVal(regs, r) == IF r.const THEN r.fixnum ELSE regs[r.virt]

\* The condition of a jump or IR_COND on the flags of the last TEST/CMP.
CondHolds(cond, fl) ==
  LET sa == BvSext(fl.a, fl.bits)
      sb == BvSext(fl.b, fl.bits)
      ua == BvZext(fl.a, fl.bits)
      ub == BvZext(fl.b, fl.bits)
  IN CASE cond = COND_ANY -> TRUE
       [] cond = COND_EQ  -> ua = ub
       [] cond = COND_NE  -> ua /= ub
       [] cond = COND_LT  -> BvSlt(sa, sb)
       [] cond = COND_LE  -> ~BvSlt(sb, sa)
       [] cond = COND_GE  -> ~BvSlt(sa, sb)
       [] cond = COND_GT  -> BvSlt(sb, sa)
       [] cond = COND_ULT -> BvUlt(ua, ub)
       [] cond = COND_ULE -> ~BvUlt(ub, ua)
       [] cond = COND_UGE -> ~BvUlt(ua, ub)
       [] cond = COND_UGT -> BvUlt(ub, ua)

\* The first position at or after <<oi, ii>> that holds an instruction;
\* <<Len(order) + 1, 1>> when the code is exhausted.
RECURSIVE SkipEmpty(_, _, _)
SkipEmpty(g, oi, ii) ==
  IF oi > Len(g.order) THEN <<Len(g.order) + 1, 1>>
  ELSE IF ii <= Len(g.bbs[g.order[oi]].irs) THEN <<oi, ii>>
  ELSE SkipEmpty(g, oi + 1, 1)

\* The position of basic block bb in the layout.
BBPos(g, bb) == CHOOSE k \in 1 .. Len(g.order) : g.order[k] = bb

IRAt(g, p) == g.bbs[g.order[p[1]]].irs[p[2]]
AtEnd(g, p) == p[1] > Len(g.order)

\* The value an instruction writes to its destination.
IRResult(ir, regs, fl) ==
  LET a == RegVal(regs, ir.opr1)
      b == RegVal(regs, ir.opr2)
      n == Bits(ir.dst.vtype)
      r == CASE ir.op = "IR_MOV"  -> a
             [] ir.op = "IR_COND" -> IF CondHolds(ir.cond, fl) THEN {0} ELSE {}
             [] ir.op = "IR_NOT"  -> IF BvZext(a, Bits(ir.opr1.vtype)) = {} THEN {0} ELSE {}
             [] ir.op = "IR_NEG"  -> BvNeg(a)
             [] ir.op = "IR_ADD"  -> BvAdd(a, b)
             [] ir.op = "IR_SUB"  -> BvSub(a, b)
             [] ir.op = "IR_MUL"  -> BvMulSmall(a, BvSum(b, 0))
             [] ir.op = "IR_CAST" -> RegNorm(a, ir.opr1.vtype)
             [] ir.op = "IR_PTRADD" -> BvAdd(BvAdd(a, BvMulSmall(b, ir.scale)), ir.offset)
  IN RegNorm(r, ir.dst.vtype)

WritesDst ==
  {"IR_MOV", "IR_COND", "IR_NOT", "IR_NEG", "IR_ADD", "IR_SUB", "IR_MUL", "IR_CAST",
   "IR_PTRADD"}

(***************************************************************************)
(* Meaning of the expressions that are lowered: the value C gives them.    *)
(***************************************************************************)

RECURSIVE EvalPure(_, _)
EvalPure(e, en) ==
  LET Bool(b) == IF b THEN {0} ELSE {}
  IN CASE e.kind = "EX_FIXNUM" -> e.fixnum
       [] e.kind = "EX_VARIABLE" -> en[e.name]
       [] e.kind = "EX_GROUP" -> EvalPure(e.sub, en)
       [] e.kind = "EX_NOT" -> Bool(EvalPure(e.sub, en) = {})
       [] e.kind \in {"EX_EQ", "EX_NE", "EX_LT", "EX_LE", "EX_GE", "EX_GT"} ->
            LET a == EvalPure(e.lhs, en)
                b == EvalPure(e.rhs, en)
                lt(u, v) == IF e.lhs.type.kind = "TY_FIXNUM" /\ ~e.lhs.type.is_unsigned
                              THEN BvSlt(u, v) ELSE BvUlt(u, v)
            IN (CASE e.kind = "EX_EQ" -> Bool(a = b)
                 [] e.kind = "EX_NE" -> Bool(a /= b)
                 [] e.kind = "EX_LT" -> Bool(lt(a, b))
                 [] e.kind = "EX_LE" -> Bool(~lt(b, a))
                 [] e.kind = "EX_GE" -> Bool(~lt(a, b))
                 [] e.kind = "EX_GT" -> Bool(lt(b, a)))
       [] e.kind = "EX_LOGAND" ->
            Bool(EvalPure(e.lhs, en) /= {} /\ EvalPure(e.rhs, en) /= {})
       [] e.kind = "EX_LOGIOR" ->
            Bool(EvalPure(e.lhs, en) /= {} \/ EvalPure(e.rhs, en) /= {})
       [] e.kind = "EX_TERNARY" ->
            IF EvalPure(e.cond, en) /= {} THEN EvalPure(e.tval, en)
            ELSE EvalPure(e.fval, en)

Truthy(e, en) == EvalPure(e, en) /= {}

(***************************************************************************)
(* Lowering and running `a && b', `a || b' and `c ? t : f'                 *)
(***************************************************************************)

MaxVal == 1

Idle == <<>>

VarX == new_expr_variable("x", tyInt)
VarY == new_expr_variable("y", tyInt)
VarI == new_expr_variable("i", tyUInt)
Lit(n) == new_expr_fixlit(tyInt, BvOfInt(n))
ULit(n) == new_expr_fixlit(tyUInt, BvOfInt(n))
Cmp(kind, lhs, rhs) == new_expr_bop(kind, tyBool, lhs, rhs)
Not(sub) == new_expr_unary("EX_NOT", tyBool, sub)
LogAnd(lhs, rhs) == new_expr_bop("EX_LOGAND", tyBool, lhs, rhs)
LogIor(lhs, rhs) == new_expr_bop("EX_LOGIOR", tyBool, lhs, rhs)

\* Operand expressions without short-circuit operators of their own.
Atoms ==
  {Lit(0), Lit(1), VarX, VarY, Not(VarX),
   Cmp("EX_LT", VarX, VarY), Cmp("EX_GE", Lit(1), VarX), Cmp("EX_EQ", VarX, Lit(0)),
   Cmp("EX_NE", VarY, VarX), Cmp("EX_GT", VarI, ULit(1)), Cmp("EX_LE", ULit(1), VarI)}

\* Operands that are short-circuit expressions themselves.
Nested ==
  {LogAnd(VarX, VarY), LogIor(VarX, VarY), Not(LogAnd(VarX, VarY)),
   new_expr_unary("EX_GROUP", tyBool, LogIor(Not(VarX), VarY)),
   new_expr_ternary(tyInt, VarX, VarY, Lit(0))}

Operands == Atoms \cup Nested

LogicExprs ==
  {LogAnd(a, b) : a \in Operands, b \in Operands}
    \cup {LogIor(a, b) : a \in Operands, b \in Operands}

TernaryExprs ==
  {new_expr_ternary(tyInt, c, t, f) : c \in Operands, t \in {Lit(1), VarX}, f \in {Lit(0), VarY}}
    \cup {new_expr_ternary(tyInt, VarX, t, f) : t \in Nested, f \in Nested}

IntVals == {BvOfInt(n) : n \in (-MaxVal) .. MaxVal}
UIntVals == {BvOfInt(0), BvOfInt(1), BvZext(BvOfInt(-MaxVal), 32)}

Envs ==
  {[x |-> vx, y |-> vy, i |-> vi, p |-> {}, c |-> {}, n |-> {}, s |-> {}, t |-> {}] :
     vx \in IntVals, vy \in IntVals, vi \in UIntVals}

\* The VRegs at function entry: the local variables hold their values.
EntryRegs(g, en) ==
  [k \in 0 .. (g.nvreg - 1) |-> IF k < Len(LocalVars) THEN en[LocalVars[k + 1]] ELSE {}]

NoFlags == [a |-> {}, b |-> {}, bits |-> FixnumBits]

InitLogic ==
  /\ expr \in LogicExprs \cup TernaryExprs
  /\ env \in Envs
  /\ phase = "lower"
  /\ built = Idle /\ value = Idle
  /\ cg = CgInit
  /\ ret = NoReg
  /\ pc = <<1, 1>>
  /\ vregs = Idle
  /\ flags = NoFlags
  /\ executed = <<>>

\* gen_expr(expr): the expression is lowered into the function's IR.
Lower ==
  /\ phase = "lower"
  /\ LET r == gen_expr(CgInit, expr, "top")
     IN /\ cg' = r.cg
        /\ ret' = r.reg
        /\ pc' = SkipEmpty(r.cg, 1, 1)
        /\ vregs' = EntryRegs(r.cg, env)
        /\ phase' = IF AtEnd(r.cg, SkipEmpty(r.cg, 1, 1)) THEN "done" ELSE "run"
  /\ UNCHANGED <<expr, env, built, value, flags, executed>>

\* The instruction at pc is executed.
ExecStep ==
  /\ phase = "run"
  /\ LET ir == IRAt(cg, pc)
         taken == ir.op = "IR_JMP" /\ CondHolds(ir.cond, flags)
         npc == IF taken THEN SkipEmpty(cg, BBPos(cg, ir.bb), 1)
                ELSE SkipEmpty(cg, pc[1], pc[2] + 1)
     IN /\ vregs' = IF ir.op \in WritesDst
                      THEN [vregs EXCEPT ![ir.dst.virt] = IRResult(ir, vregs, flags)]
                      ELSE vregs
        /\ flags' = CASE ir.op = "IR_TEST" ->
                           [a |-> RegVal(vregs, ir.opr1), b |-> {},
                            bits |-> Bits(ir.opr1.vtype)]
                      [] ir.op = "IR_CMP" ->
                           [a |-> RegVal(vregs, ir.opr1), b |-> RegVal(vregs, ir.opr2),
                            bits |-> Bits(ir.opr1.vtype)]
                      [] OTHER -> flags
        /\ executed' = Append(executed, [ir |-> ir, taken |-> taken])
        /\ pc' = npc
        /\ phase' = IF AtEnd(cg, npc) THEN "done" ELSE "run"
  /\ UNCHANGED <<expr, env, built, value, cg, ret>>

NextLogic == Lower \/ ExecStep

SpecLogic == InitLogic /\ [][NextLogic]_vars


IsLogical == expr.kind \in {"EX_LOGAND", "EX_LOGIOR"}

\* The executed instructions that were emitted for the given operand.
ExecutedFor(org) == {k \in 1 .. Len(executed) : executed[k].ir.org = org}

\* The executed MOVs of a constant into the result VReg.
ResultConstMovs ==
  {k \in 1 .. Len(executed) :
     /\ executed[k].ir.op = "IR_MOV"
     /\ executed[k].ir.dst = ret
     /\ executed[k].ir.opr1.const
     /\ executed[k].ir.opr1.fixnum \in {{}, {0}}}

\* C1: for `a && b' (`a || b') lowered by gen_expr, the instructions of b
\* are executed only when a is truthy (falsy); when the code has run the
\* result VReg holds 1 or 0 as C defines the operator, and exactly one MOV
\* of a constant 0/1 into the result VReg was executed on the path taken.
C1_ShortCircuit ==
  (IsLogical /\ phase \in {"run", "done"}) =>
    /\ ExecutedFor("rhs") /= {} =>
         (Truthy(expr.lhs, env) <=> (expr.kind = "EX_LOGAND"))
    /\ Cardinality(ResultConstMovs) <= 1
    /\ phase = "done" =>
         /\ RegVal(vregs, ret) = EvalPure(expr, env)
         /\ RegVal(vregs, ret) \in {{}, {0}}
         /\ Cardinality(ResultConstMovs) = 1

\* A run of `a && b' in which a was truthy, b's instructions ran and the
\* result is 1.
C1_Witness ==
  /\ phase = "done" /\ expr.kind = "EX_LOGAND"
  /\ ExecutedFor("rhs") /= {} /\ ExecutedFor("lhs") /= {}
  /\ RegVal(vregs, ret) = {0}


\* The last executed instruction, and the one before it.
LastExec(k) == executed[Len(executed) - k]

\* C9: for `c ? t : f' lowered by gen_ternary exactly one arm is executed,
\* the one C selects; the arm ends with a MOV into the one result VReg; the
\* true arm then leaves by an unconditional JMP to the join block, the
\* false arm falls through into it; the result VReg holds the arm's value.
C9_Ternary ==
  (expr.kind = "EX_TERNARY" /\ phase \in {"run", "done"}) =>
    /\ ExecutedFor("tval") /= {} => Truthy(expr.cond, env)
    /\ ExecutedFor("fval") /= {} => ~Truthy(expr.cond, env)
    /\ phase = "done" =>
         /\ RegVal(vregs, ret) = EvalPure(expr, env)
         /\ (ExecutedFor("tval") /= {}) /= (ExecutedFor("fval") /= {})
         /\ IF Truthy(expr.cond, env)
              THEN /\ Len(executed) >= 2
                   /\ LastExec(0).ir.op = "IR_JMP" /\ LastExec(0).ir.cond = COND_ANY
                   /\ LastExec(0).ir.org = "tval"
                   /\ cg.order[Len(cg.order)] = LastExec(0).ir.bb
                   /\ LastExec(1).ir.op = "IR_MOV" /\ LastExec(1).ir.dst = ret
                   /\ LastExec(1).ir.org = "tval"
              ELSE /\ Len(executed) >= 1
                   /\ LastExec(0).ir.op = "IR_MOV" /\ LastExec(0).ir.dst = ret
                   /\ LastExec(0).ir.org = "fval"

\* A run of a ternary whose condition is a short-circuit expression and
\* whose true arm was taken, and one whose false arm was taken.
C9_Witness ==
  /\ phase = "done" /\ expr.kind = "EX_TERNARY"
  /\ expr.cond.kind = "EX_LOGAND"
  /\ ExecutedFor("tval") /= {} /\ RegVal(vregs, ret) = {0}

C9_WitnessFalseArm ==
  /\ phase = "done" /\ expr.kind = "EX_TERNARY"
  /\ ExecutedFor("fval") /= {} /\ ExecutedFor("cond") /= {}


(***************************************************************************)
(* Lowering call expressions                                               *)
(***************************************************************************)

MaxPrefix == 9
MaxTail == 2

StructS == StructType(12, 4)
StructT == StructType(3, 1)
VarP == new_expr_variable("p", PtrType(1))
VarC == new_expr_variable("c", tyChar)
VarS == new_expr_variable("s", StructS)
VarT == new_expr_variable("t", StructT)
LongLit == new_expr_fixlit(tyLong, BvOfInt(5))
FuncF(vaargs) == new_expr_variable("f", FuncType(vaargs))

\* g(x) and h(s, (*p)()): calls used as arguments of the call under study.
CallG == new_expr_funcall(<<>>, tyInt, FuncF(FALSE), <<VarX>>)
CallH ==
  new_expr_funcall(<<>>, StructS, FuncF(FALSE),
                   <<VarS, new_expr_funcall(<<>>, tyLong, VarP, <<>>)>>)

TailArgs == {VarX, VarC, LongLit, VarS, VarT, CallG, CallH}

SeqsUpTo(S, n) == UNION {[1 .. k -> S] : k \in 0 .. n}

ArgLists ==
  {[k \in 1 .. n |-> VarP] \o tail : n \in 0 .. MaxPrefix, tail \in SeqsUpTo(TailArgs, MaxTail)}

\* Every call expression gets its place in the tree as its identity.
RECURSIVE Retag(_, _)
Retag(e, path) ==
  IF e.kind = "EX_FUNCALL"
    THEN [e EXCEPT !.tag = path,
                   !.args = [i \in 1 .. Len(e.args) |-> Retag(e.args[i], Append(path, i))]]
    ELSE e

CallExprs ==
  {Retag(new_expr_funcall(<<>>, rt, fn, args), <<>>) :
     rt \in {tyInt, StructS}, fn \in {FuncF(FALSE), FuncF(TRUE), VarP}, args \in ArgLists}

InitCall ==
  /\ expr \in CallExprs
  /\ env = Idle
  /\ phase = "lower"
  /\ built = Idle /\ value = Idle
  /\ cg = CgInit
  /\ ret = NoReg
  /\ pc = <<1, 1>>
  /\ vregs = Idle
  /\ flags = NoFlags
  /\ executed = <<>>

\* gen_expr(expr) for a call expression: gen_funcall emits its IR.
LowerCall ==
  /\ phase = "lower"
  /\ expr.kind = "EX_FUNCALL"
  /\ LET r == gen_expr(CgInit, expr, "top")
     IN /\ cg' = r.cg
        /\ ret' = r.reg
  /\ phase' = "lowered"
  /\ UNCHANGED <<expr, env, built, value, pc, vregs, flags, executed>>

NextCall == LowerCall

SpecCall == InitCall /\ [][NextCall]_vars

\* The emitted instructions in layout order.
RECURSIVE CodeFrom(_, _)
CodeFrom(g, oi) ==
  IF oi > Len(g.order) THEN <<>>
  ELSE g.bbs[g.order[oi]].irs \o CodeFrom(g, oi + 1)
Code == CodeFrom(cg, 1)

\* The call expressions contained in e, e included.
RECURSIVE AllCalls(_)
AllCalls(e) ==
  IF e.kind = "EX_FUNCALL"
    THEN {e} \cup UNION {AllCalls(e.args[i]) : i \in 1 .. Len(e.args)}
    ELSE {}

ArgOps == {"IR_PUSHARG", "IR_STORE", "IR_MEMCPY"}
PrecallPos(c) == {k \in 1 .. Len(Code) : Code[k].op = "IR_PRECALL" /\ Code[k].call = c.tag}
CallPos(c) == {k \in 1 .. Len(Code) : Code[k].op = "IR_CALL" /\ Code[k].call = c.tag}
ArgPos(c, i) ==
  {k \in 1 .. Len(Code) : Code[k].op \in ArgOps /\ Code[k].call = c.tag /\ Code[k].arg = i}
The(S) == CHOOSE k \in S : TRUE

\* The number of PUSHARGs of call c emitted before position k.
PushedBefore(c, k) ==
  Cardinality({j \in 1 .. (k - 1) : Code[j].op = "IR_PUSHARG" /\ Code[j].call = c.tag})

\* The instruction at k stores into the stack slot of `info': its address
\* is an SOFS of the slot's offset, corrected for the words pushed so far.
StoresToSlot(c, k, info) ==
  \E j \in 1 .. (k - 1) :
    /\ Code[j].op = "IR_SOFS" /\ Code[j].dst = Code[k].opr1
    /\ Code[j].opr1.fixnum = BvOfInt(info.offset + PushedBefore(c, k) * WORD_SIZE)

C2_CallShape(c) ==
  LET lay == funcall_layout(c)
      n   == Len(c.args)
  IN /\ Cardinality(PrecallPos(c)) = 1
     /\ Cardinality(CallPos(c)) = 1
     /\ The(PrecallPos(c)) < The(CallPos(c))
     /\ Code[The(CallPos(c))].precall = Code[The(PrecallPos(c))].id
     /\ \A k \in 1 .. Len(Code) :
          (Code[k].op = "IR_PRECALL" /\ Code[k].id = Code[The(PrecallPos(c))].id)
            => k = The(PrecallPos(c))
     /\ \A i \in 1 .. n :
          /\ Cardinality(ArgPos(c, i)) = 1
          /\ The(PrecallPos(c)) < The(ArgPos(c, i))
          /\ The(ArgPos(c, i)) < The(CallPos(c))
          /\ Code[The(ArgPos(c, i))].op =
               (IF lay.infos[i].offset < 0 THEN "IR_PUSHARG"
                ELSE IF c.args[i].type.kind = "TY_STRUCT" THEN "IR_MEMCPY"
                ELSE "IR_STORE")
          /\ lay.infos[i].offset >= 0 =>
               /\ StoresToSlot(c, The(ArgPos(c, i)), lay.infos[i])
               /\ lay.infos[i].offset + lay.infos[i].size
                    <= Code[The(PrecallPos(c))].stack_args_size
          /\ \A j \in (i + 1) .. n : The(ArgPos(c, j)) < The(ArgPos(c, i))
          /\ \A d \in AllCalls(c.args[i]) :
               /\ The(PrecallPos(c)) < The(PrecallPos(d))
               /\ The(CallPos(d)) < The(ArgPos(c, i))
               /\ \A j \in (i + 1) .. n : The(ArgPos(c, j)) < The(PrecallPos(d))
     /\ Cardinality(ArgPos(c, 0)) = (IF c.type.kind = "TY_STRUCT" THEN 1 ELSE 0)
     /\ \A k \in ArgPos(c, 0) :
          /\ Code[k].op = "IR_PUSHARG"
          /\ The(PrecallPos(c)) < k /\ k < The(CallPos(c))

\* C2: for every call expression gen_funcall emits exactly one PRECALL,
\* then for the arguments from the last to the first exactly one PUSHARG
\* per register argument and exactly one STORE (MEMCPY for a struct) into
\* the reserved stack area per stack argument, then exactly one CALL that
\* references that PRECALL; the PRECALL/CALL pair of a call inside an
\* argument lies between the outer PRECALL and the outer CALL.
C2_CallSequence ==
  phase = "lowered" => \A c \in AllCalls(expr) : C2_CallShape(c)

\* A lowered call with a register argument, a scalar and a struct stack
\* argument and a call among its arguments.
C2_Witness ==
  /\ phase = "lowered"
  /\ \E i, j, k, l \in 1 .. Len(expr.args) :
       /\ Code[The(ArgPos(expr, i))].op = "IR_PUSHARG"
       /\ Code[The(ArgPos(expr, j))].op = "IR_STORE"
       /\ Code[The(ArgPos(expr, k))].op = "IR_MEMCPY"
       /\ expr.args[l].kind = "EX_FUNCALL" /\ Len(expr.args[l].args) = 2


\* The stack slots of call c: those of its stack arguments and, for a
\* struct result, the return buffer (slot 0).
StackSlots(c) ==
  LET lay == funcall_layout(c)
  IN {i \in 1 .. Len(c.args) : lay.infos[i].reg_index < 0}
       \cup (IF c.type.kind = "TY_STRUCT" THEN {0} ELSE {})
SlotInfo(c, i) == IF i = 0 THEN funcall_layout(c).ret_info ELSE funcall_layout(c).infos[i]
SlotEnd(c, i) == SlotInfo(c, i).offset + SlotInfo(c, i).size

C3_Layout(c) ==
  LET lay    == funcall_layout(c)
      n      == Len(c.args)
      hidden == IF c.type.kind = "TY_STRUCT" THEN 1 ELSE 0
      inreg  == {i \in 1 .. n : lay.infos[i].reg_index >= 0}
      ends   == {SlotEnd(c, i) : i \in StackSlots(c)} \cup {0}
      last   == CHOOSE m \in ends : \A o \in ends : o <= m
      size   == Code[The(PrecallPos(c))].stack_args_size
  IN /\ Cardinality(inreg) + hidden <= MAX_REG_ARGS
     /\ hidden = 1 => lay.ret_info.reg_index = 0
     /\ \A i \in inreg :
          lay.infos[i].reg_index = hidden + Cardinality({j \in inreg : j < i})
     /\ \A i \in (1 .. n) \ inreg :
          /\ lay.infos[i].offset >= 0
          /\ lay.infos[i].offset % align_size(c.args[i].type) = 0
     /\ \A i, j \in StackSlots(c) :
          i /= j => (SlotEnd(c, i) <= SlotInfo(c, j).offset
                       \/ SlotEnd(c, j) <= SlotInfo(c, i).offset)
     /\ size % 8 = 0 /\ last <= size /\ size < last + 8

\* C3: for every argument list gen_funcall gives at most MAX_REG_ARGS values
\* a register index, the hidden struct-return pointer (index 0) included;
\* the indices run 0,1,2,.. in argument order; every other argument gets a
\* stack offset that is a multiple of its alignment; the byte ranges of
\* the stack arguments and of the struct-return buffer are pairwise
\* disjoint; and PRECALL's stack size is the end of the last slot rounded
\* up to a multiple of 8.
C3_ArgLayout ==
  phase = "lowered" => \A c \in AllCalls(expr) : C3_Layout(c)

\* A call returning a struct whose register indices are used up, with a
\* stack slot that had to be padded for alignment.
C3_Witness ==
  /\ phase = "lowered"
  /\ expr.type.kind = "TY_STRUCT"
  /\ \E i \in 1 .. Len(expr.args) : funcall_layout(expr).infos[i].reg_index = MAX_REG_ARGS - 1
  /\ \E i, j \in StackSlots(expr) :
       /\ i > 0 /\ j > i
       /\ expr.args[i].type.kind = "TY_FIXNUM"
       /\ SlotInfo(expr, j).offset > SlotEnd(expr, i)


(***************************************************************************)
(* Lowering and running `p + i' and `p - i'                                *)
(***************************************************************************)

ElemSizes == {1, 2, 3, 4, 8, 12, 16}
VarN == new_expr_variable("n", tyLong)

\* Index expressions: constants and variables of several integer types.
IndexExprs ==
  {Lit(n) : n \in (-MaxVal) .. (MaxVal + 1)}
    \cup {new_expr_fixlit(tyLong, {40}), VarX, VarI, VarC, VarN}

PtrExprs ==
  {new_expr_bop(kind, PtrType(size), new_expr_variable("p", PtrType(size)), rhs) :
     kind \in {"EX_PTRADD", "EX_PTRSUB"}, size \in ElemSizes, rhs \in IndexExprs}

INT_MIN == BvSext({31}, 32)

PtrEnvs ==
  {[x |-> vx, y |-> {}, i |-> vi, p |-> vp, c |-> vc, n |-> vn, s |-> {}, t |-> {}] :
     vx \in IntVals \cup {INT_MIN}, vi \in UIntVals, vp \in {BvOfInt(4096), BvNot({0})},
     vc \in {BvOfInt(-MaxVal), BvOfInt(MaxVal)}, vn \in {BvOfInt(-MaxVal), {40}}}

InitPtr ==
  /\ expr \in PtrExprs
  /\ env \in PtrEnvs
  /\ phase = "lower"
  /\ built = Idle /\ value = Idle
  /\ cg = CgInit
  /\ ret = NoReg
  /\ pc = <<1, 1>>
  /\ vregs = Idle
  /\ flags = NoFlags
  /\ executed = <<>>

NextPtr == Lower \/ ExecStep

SpecPtr == InitPtr /\ [][NextPtr]_vars

IsPtrArith == expr.kind \in {"EX_PTRADD", "EX_PTRSUB"}

\* lreg + i * sizeof(*p), or lreg - i * sizeof(*p), modulo 2^64.
PtrArithValue(e, en) ==
  LET prod == BvMulSmall(EvalPure(e.rhs, en), e.type.elem)
  IN IF e.kind = "EX_PTRADD" THEN BvAdd(EvalPure(e.lhs, en), prod)
     ELSE BvSub(EvalPure(e.lhs, en), prod)

PtrAdds == {k \in 1 .. Len(Code) : Code[k].op = "IR_PTRADD"}
Muls == {k \in 1 .. Len(Code) : Code[k].op = "IR_MUL"}

\* The form of the emitted code C4 describes.
C4_Shape ==
  LET size == expr.type.elem
      pa   == Code[The(PtrAdds)]
  IN /\ Cardinality(PtrAdds) = 1
     /\ IF expr.rhs.kind = "EX_FIXNUM"
          THEN /\ pa.opr2 = NoReg /\ Muls = {}
               /\ pa.offset = BvMulSmall(IF expr.kind = "EX_PTRADD" THEN expr.rhs.fixnum
                                         ELSE BvNeg(expr.rhs.fixnum), size)
        ELSE IF size \in {1, 2, 4, 8}
          THEN pa.scale = size /\ Muls = {} /\ pa.offset = {}
        ELSE /\ pa.scale = 1 /\ pa.offset = {}
             /\ Cardinality(Muls) = 1
             /\ Code[The(Muls)].opr2.fixnum = BvOfInt(size)

\* C4: gen_ptradd yields lreg + i * sizeof(*p) for EX_PTRADD and
\* lreg - i * sizeof(*p) for EX_PTRSUB modulo 2^64, for every index value
\* and element size; a constant index becomes the PTRADD offset, a
\* non-constant one is scaled by PTRADD when the size is a power of two not
\* above 8 and by an explicit MUL (PTRADD scale 1) otherwise.
C4_PtrAdd ==
  (IsPtrArith /\ phase = "done") =>
    /\ RegVal(vregs, ret) = PtrArithValue(expr, env)
    /\ C4_Shape

\* What does hold: the form of the code always, and the value whenever the
\* index is a constant or has the width of a pointer.
C4_PtrAddWide ==
  (IsPtrArith /\ phase = "done") =>
    /\ C4_Shape
    /\ (expr.rhs.kind = "EX_FIXNUM" \/ type_size(expr.rhs.type) = 8)
         => RegVal(vregs, ret) = PtrArithValue(expr, env)


(***************************************************************************)
(* fe_misc.c: the expression builders of the front end.  Fixnum kinds are  *)
(* ranked by their size (char 1, short 2, int 4, long 8).                  *)
(***************************************************************************)

BvAshr(a, k) ==
  BvLshr(a, k) \cup (IF BvIsNeg(a) THEN (FixnumBits - k) .. (FixnumBits - 1) ELSE {})

same_type(a, b) == a = b
is_number(type) == type.kind = "TY_FIXNUM"
ptr_or_array(type) == type.kind = "TY_PTR"
get_fixnum_type(kind, is_unsigned) == FixnumType(kind, is_unsigned)
new_expr_cast(type, sub) == new_expr_unary("EX_CAST", type, sub)

\* A temporary variable of the current scope, named as the local that
\* holds it in the transformation.
alloc_tmp_var(name, type) == new_expr_variable(name, type)

make_cast(type, sub) ==
  IF same_type(type, sub.type) THEN sub
  ELSE IF is_const(sub)
    THEN [sub EXCEPT !.fixnum = wrap_value(sub.fixnum, type_size(type), type.is_unsigned),
                     !.type = type]
  ELSE new_expr_cast(type, sub)

promote_to_int(e) ==
  IF type_size(e.type) >= type_size(tyInt) THEN e
  ELSE make_cast(get_fixnum_type(type_size(tyInt), e.type.is_unsigned), e)

\* cast_numbers(&lhs, &rhs, make_int): the pair after the usual conversions.
cast_numbers(lhs, rhs, make_int) ==
  LET l == 2 * type_size(lhs.type) + (IF lhs.type.is_unsigned THEN 1 ELSE 0)
      r == 2 * type_size(rhs.type) + (IF rhs.type.is_unsigned THEN 1 ELSE 0)
  IN IF make_int /\ type_size(lhs.type) < type_size(tyInt)
                 /\ type_size(rhs.type) < type_size(tyInt)
       THEN <<promote_to_int(lhs), promote_to_int(rhs)>>
     ELSE IF l > r THEN <<lhs, make_cast(lhs.type, rhs)>>
     ELSE IF l < r THEN <<make_cast(rhs.type, lhs), rhs>>
     ELSE <<lhs, rhs>>

\* The type of a folded constant: the operand type of the higher kind, int
\* at least.
FoldType(lhs, rhs) ==
  LET type == IF type_size(lhs.type) >= type_size(rhs.type) THEN lhs.type ELSE rhs.type
  IN IF type_size(type) < type_size(tyInt) THEN tyInt ELSE type

\* CALC(kind, l, r): the right operand of `*', `/' is an object size here.
CALC(kind, l, r, is_unsigned) ==
  CASE kind = "EX_MUL" -> BvMulSmall(l, BvSum(r, 0))
    [] kind = "EX_DIV" -> IF is_unsigned THEN BvUdivSmall(l, BvSum(r, 0))
                          ELSE BvSdivSmall(l, BvSum(r, 0))
    [] kind = "EX_BITAND" -> BvAnd(l, r)
    [] kind = "EX_BITOR" -> BvOr(l, r)
    [] kind = "EX_BITXOR" -> BvXor(l, r)

new_expr_num_bop(kind, lhs, rhs) ==
  IF is_const(lhs) /\ is_number(lhs.type) /\ is_const(rhs) /\ is_number(rhs.type)
    THEN LET v    == CALC(kind, lhs.fixnum, rhs.fixnum, lhs.type.is_unsigned)
             type == FoldType(lhs, rhs)
         IN new_expr_fixlit(type, wrap_value(v, type_size(type), type.is_unsigned))
    ELSE LET c == cast_numbers(lhs, rhs, TRUE)
         IN new_expr_bop(kind, c[1].type, c[1], c[2])

new_expr_int_bop(kind, lhs, rhs) == new_expr_num_bop(kind, lhs, rhs)

\* The index of pointer arithmetic, scaled: (size_t)num * sizeof(*ptr).
ScaledIndex(ptype, num) ==
  new_expr_num_bop("EX_MUL", make_cast(tySize, num),
                   new_expr_fixlit(tySize, BvOfInt(ptype.elem)))

\* The tail of new_expr_addsub for pointer +/- number.
PtrNumTail(kind, type, lhs, rhs) ==
  IF is_const(lhs) /\ is_const(rhs)
    THEN [lhs EXCEPT !.fixnum = IF kind = "EX_ADD" THEN BvAdd(@, rhs.fixnum)
                                ELSE BvSub(@, rhs.fixnum)]
    ELSE new_expr_bop(kind, type, lhs, rhs)

new_expr_addsub(kind, lhs, rhs) ==
  LET ltype == lhs.type
      rtype == rhs.type
  IN IF is_number(ltype) /\ is_number(rtype)
       THEN IF is_const(lhs) /\ is_const(rhs)
              THEN LET v    == IF kind = "EX_ADD" THEN BvAdd(lhs.fixnum, rhs.fixnum)
                               ELSE BvSub(lhs.fixnum, rhs.fixnum)
                       type == FoldType(lhs, rhs)
                   IN new_expr_fixlit(type,
                                      wrap_value(v, type_size(type), type.is_unsigned))
              ELSE LET c == cast_numbers(lhs, rhs, TRUE)
                   IN new_expr_bop(kind, c[1].type, c[1], c[2])
     ELSE IF ptr_or_array(ltype) /\ is_number(rtype)
       THEN PtrNumTail(kind, ltype, lhs, ScaledIndex(ltype, rhs))
     ELSE IF ptr_or_array(ltype) /\ kind = "EX_SUB" /\ ptr_or_array(rtype)
       THEN IF is_const(lhs) /\ is_const(rhs)
              THEN \* Fixnum / size_t: the division is unsigned.
                   new_expr_fixlit(tySize,
                                   BvUdivSmall(BvSub(lhs.fixnum, rhs.fixnum), ltype.elem))
              ELSE new_expr_bop("EX_DIV", tySSize,
                                make_cast(tySSize, new_expr_bop("EX_SUB", tySize, lhs, rhs)),
                                new_expr_fixlit(tySSize, BvOfInt(ltype.elem)))
     ELSE IF ptr_or_array(rtype) /\ kind = "EX_ADD" /\ is_number(ltype)
       THEN PtrNumTail(kind, rtype, rhs, ScaledIndex(rtype, lhs))
     ELSE new_expr_bop(kind, ltype, lhs, rhs)

calc_assign_with(kind, lhs, rhs) ==
  CASE kind \in {"EX_ADD", "EX_SUB"} -> new_expr_addsub(kind, lhs, rhs)
    [] kind \in {"EX_MUL", "EX_DIV"} -> new_expr_num_bop(kind, lhs, rhs)
    [] kind \in {"EX_MOD", "EX_BITAND", "EX_BITOR", "EX_BITXOR"} ->
         new_expr_int_bop(kind, lhs, rhs)
    [] kind \in {"EX_LSHIFT", "EX_RSHIFT"} -> new_expr_bop(kind, lhs.type, lhs, rhs)


(***************************************************************************)
(* The value of a front-end expression tree.  A state st holds the storage *)
(* unit `mem' of the bitfield, the local variables `vars', and `lvals',    *)
(* the number of times the address of the l-value has been taken.  Every   *)
(* node is computed in the width and signedness of its type.               *)
(***************************************************************************)

TypeWrap(v, type) == wrap_value(v, type_size(type), type.is_unsigned)

EvalBop(kind, type, a, b) ==
  CASE kind = "EX_ADD" -> BvAdd(a, b)
    [] kind = "EX_SUB" -> BvSub(a, b)
    [] kind = "EX_MUL" -> BvMulSmall(a, BvSum(b, 0))
    [] kind = "EX_DIV" -> IF type.is_unsigned THEN BvUdivSmall(a, BvSum(b, 0))
                          ELSE BvSdivSmall(a, BvSum(b, 0))
    [] kind = "EX_BITAND" -> BvAnd(a, b)
    [] kind = "EX_BITOR" -> BvOr(a, b)
    [] kind = "EX_BITXOR" -> BvXor(a, b)
    [] kind = "EX_LSHIFT" -> BvShl(a, BvSum(b, 0))
    [] kind = "EX_RSHIFT" -> IF type.is_unsigned THEN BvLshr(a, BvSum(b, 0))
                             ELSE BvAshr(a, BvSum(b, 0))

RECURSIVE EvalExpr(_, _)
EvalAssign(e, st) ==
  LET r == EvalExpr(e.rhs, st)
      v == TypeWrap(r.v, e.lhs.type)
  IN IF e.lhs.kind = "EX_VARIABLE"
       THEN [v |-> v, st |-> [r.st EXCEPT !.vars[e.lhs.name] = v]]
       ELSE \* *ptr = rhs: the storage unit is written in its full width.
            [v |-> v,
             st |-> [r.st EXCEPT !.mem = BvZext(r.v, type_size(e.lhs.type) * TARGET_CHAR_BIT)]]

EvalExpr(e, st) ==
  CASE e.kind = "EX_FIXNUM" -> [v |-> TypeWrap(e.fixnum, e.type), st |-> st]
    [] e.kind = "EX_VARIABLE" -> [v |-> st.vars[e.name], st |-> st]
    [] e.kind = "EX_REF" -> [v |-> e.sub.addr, st |-> [st EXCEPT !.lvals = @ + 1]]
    [] e.kind = "EX_DEREF" ->
         LET r == EvalExpr(e.sub, st)
         IN [v |-> TypeWrap(r.st.mem, e.type), st |-> r.st]
    [] e.kind = "EX_CAST" ->
         LET r == EvalExpr(e.sub, st)
         IN [v |-> TypeWrap(r.v, e.type), st |-> r.st]
    [] e.kind = "EX_ASSIGN" -> EvalAssign(e, st)
    [] e.kind = "EX_COMMA" -> EvalExpr(e.rhs, EvalExpr(e.lhs, st).st)
    [] OTHER ->
         LET a == EvalExpr(e.lhs, st)
             b == EvalExpr(e.rhs, a.st)
         IN [v |-> TypeWrap(EvalBop(e.kind, e.type, a.v, b.v), e.type), st |-> b.st]

NoVars == [p |-> {}, q |-> {}, i |-> {}, ptr |-> {}, src |-> {}, val |-> {}]
EvalState(mem, vs) == [mem |-> mem, vars |-> vs, lvals |-> 0]

(***************************************************************************)
(* Pointer difference and the round trip (p + i) - p                       *)
(***************************************************************************)

MaxElems == 2
PtrBase == 2 ^ 12

\* An operand `name' of type T* holding the address a: a constant if
\* `const', else a variable read at run time.
PtrOperand(const, name, size, a) ==
  IF const THEN new_expr_fixlit(PtrType(size), a)
  ELSE new_expr_variable(name, PtrType(size))
IntOperand(const, type, n) ==
  IF const THEN new_expr_fixlit(type, TypeWrap(BvOfInt(n), type))
  ELSE new_expr_variable("i", type)

DiffEnvs ==
  [mode : {"diff"}, size : ElemSizes, lconst : BOOLEAN, rconst : BOOLEAN,
   l : 0 .. MaxElems, r : 0 .. MaxElems, itype : {tyInt}]
TripEnvs ==
  [mode : {"trip"}, size : ElemSizes, lconst : BOOLEAN, rconst : BOOLEAN,
   l : {0}, r : (-MaxElems) .. MaxElems, itype : {tyInt, tyLong}]

ElemAddr(size, k) == BvOfInt(PtrBase + k * size)

InitPtrDiff ==
  /\ env \in DiffEnvs \cup TripEnvs
  /\ expr = Idle
  /\ phase = "parse"
  /\ built = Idle
  /\ value = Idle
  /\ cg = CgInit
  /\ ret = NoReg
  /\ pc = Idle
  /\ vregs = Idle
  /\ flags = NoFlags
  /\ executed = <<>>

\* lhs - rhs for two pointers to the same element type.
BuildDiff ==
  /\ phase = "parse"
  /\ env.mode = "diff"
  /\ built' = new_expr_addsub("EX_SUB",
                PtrOperand(env.lconst, "p", env.size, ElemAddr(env.size, env.l)),
                PtrOperand(env.rconst, "q", env.size, ElemAddr(env.size, env.r)))
  /\ phase' = "built"
  /\ UNCHANGED <<expr, env, value, cg, ret, pc, vregs, flags, executed>>

\* (p + i) - p, both built by new_expr_addsub.
BuildRoundTrip ==
  /\ phase = "parse"
  /\ env.mode = "trip"
  /\ LET p == PtrOperand(env.lconst, "p", env.size, ElemAddr(env.size, 0))
     IN built' = new_expr_addsub("EX_SUB",
                   new_expr_addsub("EX_ADD", p, IntOperand(env.rconst, env.itype, env.r)),
                   p)
  /\ phase' = "built"
  /\ UNCHANGED <<expr, env, value, cg, ret, pc, vregs, flags, executed>>

EvalPtrDiff ==
  /\ phase = "built"
  /\ LET vs == [NoVars EXCEPT !.p = ElemAddr(env.size, env.l),
                              !.q = ElemAddr(env.size, env.r),
                              !.i = BvOfInt(env.r)]
     IN value' = EvalExpr(built, EvalState({}, vs)).v
  /\ phase' = "evaluated"
  /\ UNCHANGED <<expr, env, built, cg, ret, pc, vregs, flags, executed>>

NextPtrDiff == BuildDiff \/ BuildRoundTrip \/ EvalPtrDiff
SpecPtrDiff == InitPtrDiff /\ [][NextPtrDiff]_vars

\* C5: the difference of two pointers to the same element type is the
\* signed quotient (lhs - rhs) / sizeof(element), for run-time and for
\* constant operands, negative differences included; and (p + i) - p is i
\* for every integer i, negative i included.
C5_PtrDiff ==
  phase = "evaluated" =>
    value = IF env.mode = "diff" THEN BvOfInt(env.l - env.r) ELSE BvOfInt(env.r)

\* The same with the operands of the subtraction not both constant.
C5_PtrDiffRuntime ==
  (phase = "evaluated" /\ ~is_const(built)) =>
    value = IF env.mode = "diff" THEN BvOfInt(env.l - env.r) ELSE BvOfInt(env.r)

\* Folded constants agree with the claim while the difference is not negative.
C5_PtrDiffFoldedNonNeg ==
  (phase = "evaluated" /\ is_const(built)
     /\ (IF env.mode = "diff" THEN env.l >= env.r ELSE env.r >= 0)) =>
    value = IF env.mode = "diff" THEN BvOfInt(env.l - env.r) ELSE BvOfInt(env.r)

C5_Witness ==
  /\ phase = "evaluated"
  /\ env.mode = "diff"
  /\ ~env.lconst /\ ~env.rconst
  /\ env.l < env.r
  /\ value = BvOfInt(env.l - env.r)


(***************************************************************************)
(* fe_misc.c: bitfield members.  A shift by the width of its left operand  *)
(* or more has no defined result: env.shift tells what the build makes of  *)
(* it, the machine's shift (count taken modulo the width) or zero.         *)
(***************************************************************************)

MemberInfo(type, position, width) ==
  [type |-> type,
   bitfield |-> [base_kind |-> type_size(type), position |-> position, width |-> width]]
ptrof(type) == PtrType(type_size(type))

\* (UFixnum)1 << n
ShlUFixnum1(n) ==
  IF n < FixnumBits THEN {n}
  ELSE IF env.shift = "modulo" THEN {n % FixnumBits}
  ELSE {}
\* 1 << n computed in int and converted to Fixnum.
ShlInt1(n) ==
  LET w == type_size(tyInt) * TARGET_CHAR_BIT
  IN IF n < w THEN BvSext({n}, w)
     ELSE IF env.shift = "modulo" THEN BvSext({n % w}, w)
     ELSE {}
\* UFixnum mask = ((UFixnum)1 << width) - 1
BitfieldMask(minfo) == BvSub(ShlUFixnum1(minfo.bitfield.width), {0})

extract_bitfield_value(src, minfo) ==
  LET type == src.type
      pos  == minfo.bitfield.position
      wid  == minfo.bitfield.width
      w    == type_size(type) * TARGET_CHAR_BIT
      l    == w - (pos + wid)
      u1   == IF pos > 0
                THEN new_expr_bop("EX_RSHIFT", type, src, new_expr_fixlit(type, BvOfInt(pos)))
                ELSE src
      u2   == new_expr_bop("EX_BITAND", type, u1, new_expr_fixlit(type, BitfieldMask(minfo)))
      s1   == IF l > 0
                THEN new_expr_bop("EX_LSHIFT", type, src, new_expr_fixlit(type, BvOfInt(l)))
                ELSE src
      s2   == IF wid < w
                THEN new_expr_bop("EX_RSHIFT", type, s1, new_expr_fixlit(type, BvOfInt(w - wid)))
                ELSE s1
  IN make_cast(minfo.type, IF type.is_unsigned THEN u2 ELSE s2)

assign_bitfield_member(dst, src, val, minfo) ==
  LET type  == dst.type
      vtype == val.type
      pos   == minfo.bitfield.position
      mask  == BitfieldMask(minfo)
      v1    == make_cast(type, new_expr_bop("EX_BITAND", vtype, val,
                                            new_expr_fixlit(vtype, mask)))
      v2    == IF pos > 0
                 THEN new_expr_bop("EX_LSHIFT", type, v1, new_expr_fixlit(vtype, BvOfInt(pos)))
                 ELSE v1
      val_masked == make_cast(type, v2)
      src_masked == new_expr_bop("EX_BITAND", type, src,
                                 new_expr_fixlit(type, BvNot(BvShl(mask, pos))))
  IN new_expr_bop("EX_ASSIGN", type, dst,
                  new_expr_bop("EX_BITOR", type, val_masked, src_masked))

assign_to_bitfield(lhs, rhs, minfo) ==
  LET type  == get_fixnum_type(minfo.bitfield.base_kind, minfo.type.is_unsigned)
      ptype == ptrof(type)
      ptr   == alloc_tmp_var("ptr", ptype)
      ptr_assign == new_expr_bop("EX_ASSIGN", ptype, ptr, new_expr_unary("EX_REF", ptype, lhs))
      vtype == rhs.type
      val   == alloc_tmp_var("val", vtype)
      val_assign == new_expr_bop("EX_ASSIGN", vtype, val, rhs)
      dst   == new_expr_unary("EX_DEREF", type, ptr)
      assign == assign_bitfield_member(dst, dst, val, minfo)
  IN new_expr_bop("EX_COMMA", vtype, ptr_assign,
       new_expr_bop("EX_COMMA", vtype, val_assign,
         new_expr_bop("EX_COMMA", vtype, assign, val)))

transform_incdec_of_bitfield(kind, target, minfo) ==
  LET type  == get_fixnum_type(minfo.bitfield.base_kind, target.type.is_unsigned)
      ptype == ptrof(type)
      ptr   == alloc_tmp_var("ptr", ptype)
      ptr_assign == new_expr_bop("EX_ASSIGN", ptype, ptr,
                                 new_expr_unary("EX_REF", ptype, target))
      dst   == new_expr_unary("EX_DEREF", type, ptr)
      src   == alloc_tmp_var("src", type)
      src_assign == new_expr_bop("EX_ASSIGN", type, src, dst)
      vtype == minfo.type
      val   == alloc_tmp_var("val", vtype)
      dec   == kind \in {"EX_PREDEC", "EX_POSTDEC"}
      post  == kind \in {"EX_POSTINC", "EX_POSTDEC"}
      op    == IF dec THEN "EX_SUB" ELSE "EX_ADD"
      before == extract_bitfield_value(src, minfo)
      tmp   == extract_bitfield_value(
                 new_expr_bop(op, type, src,
                              new_expr_fixlit(type, ShlInt1(minfo.bitfield.position))),
                 minfo)
      val_assign == new_expr_bop("EX_ASSIGN", type, val, IF post THEN before ELSE tmp)
      after == IF post
                 THEN new_expr_bop(op, type, before, new_expr_fixlit(type, BvOfInt(1)))
                 ELSE val
      store == assign_bitfield_member(dst, src, after, minfo)
  IN new_expr_bop("EX_COMMA", vtype,
       new_expr_bop("EX_COMMA", vtype, ptr_assign,
         new_expr_bop("EX_COMMA", vtype, src_assign,
           new_expr_bop("EX_COMMA", vtype, val_assign, store))),
       val)

transform_assign_with_bitfield(kind, lhs, rhs, minfo) ==
  LET type  == get_fixnum_type(minfo.bitfield.base_kind, lhs.type.is_unsigned)
      ptype == ptrof(type)
      ptr   == alloc_tmp_var("ptr", ptype)
      ptr_assign == new_expr_bop("EX_ASSIGN", ptype, ptr, new_expr_unary("EX_REF", ptype, lhs))
      dst   == new_expr_unary("EX_DEREF", type, ptr)
      src   == alloc_tmp_var("src", type)
      src_assign == new_expr_bop("EX_ASSIGN", type, src, dst)
      tmp   == calc_assign_with(kind, extract_bitfield_value(src, minfo), rhs)
      store == assign_bitfield_member(dst, src, tmp, minfo)
      vtype == rhs.type
  IN new_expr_bop("EX_COMMA", vtype,
       new_expr_bop("EX_COMMA", vtype, ptr_assign,
         new_expr_bop("EX_COMMA", vtype, src_assign, store)),
       extract_bitfield_value(dst, minfo))


(***************************************************************************)
(* Assigning, reading, ++/-- and compound assignment of a bitfield member  *)
(***************************************************************************)

UnitTypes == {tyInt, tyUInt, tyLong, tySize}
FieldPositions == {0, 5, 31, 40}
FieldWidths == {1, 3, 32, 64}
UnitBits(type) == type_size(type) * TARGET_CHAR_BIT
\* A word with every other bit pair set, and its complement.
Stripes == {i \in Word : i % 4 \in {0, 3}}
OldUnits == {{}, Word, Stripes}
FieldVals == {BvOfInt(n) : n \in (-MaxVal) .. MaxVal} \cup {BvNot(Stripes)}
IncDecKinds == {"EX_PREINC", "EX_PREDEC", "EX_POSTINC", "EX_POSTDEC"}
AssignWithKinds == {"EX_ADD", "EX_SUB", "EX_BITAND", "EX_BITOR", "EX_BITXOR"}

BitfieldEnvs ==
  {en \in [unit : UnitTypes, position : FieldPositions, width : FieldWidths,
           old : OldUnits, val : FieldVals, shift : {"modulo", "zero"}] :
     en.position + en.width <= UnitBits(en.unit)}

Minfo == MemberInfo(env.unit, env.position, env.width)
\* The member expression s.f, and the right operand, a variable of the
\* member's type.
Target == [kind |-> "EX_MEMBER", type |-> env.unit, addr |-> BvOfInt(PtrBase)]
Operand == new_expr_variable("i", env.unit)

InitBitfield ==
  /\ env \in BitfieldEnvs
  /\ expr = Idle
  /\ phase = "parse"
  /\ built = Idle
  /\ value = [v |-> {},
              st |-> EvalState(BvZext(env.old, UnitBits(env.unit)),
                               [NoVars EXCEPT !.i = TypeWrap(env.val, env.unit)])]
  /\ cg = CgInit
  /\ ret = NoReg
  /\ pc = Idle
  /\ vregs = Idle
  /\ flags = NoFlags
  /\ executed = <<>>

\* s.f = i
BuildAssign ==
  /\ phase = "parse"
  /\ expr' = "EX_ASSIGN"
  /\ built' = assign_to_bitfield(Target, Operand, Minfo)
  /\ phase' = "built"
  /\ UNCHANGED <<env, value, cg, ret, pc, vregs, flags, executed>>

\* ++s.f, --s.f, s.f++, s.f--
BuildIncDec ==
  /\ phase = "parse"
  /\ \E kind \in IncDecKinds :
       /\ expr' = kind
       /\ built' = transform_incdec_of_bitfield(kind, Target, Minfo)
  /\ phase' = "built"
  /\ UNCHANGED <<env, value, cg, ret, pc, vregs, flags, executed>>

\* s.f op= i
BuildAssignWith ==
  /\ phase = "parse"
  /\ \E kind \in AssignWithKinds :
       /\ expr' = kind
       /\ built' = transform_assign_with_bitfield(kind, Target, Operand, Minfo)
  /\ phase' = "built"
  /\ UNCHANGED <<env, value, cg, ret, pc, vregs, flags, executed>>

\* Reading the member back after the assignment.
BuildExtract ==
  /\ phase = "evaluated"
  /\ expr = "EX_ASSIGN"
  /\ expr' = "EX_MEMBER"
  /\ built' = extract_bitfield_value(
                new_expr_unary("EX_DEREF", env.unit, alloc_tmp_var("ptr", ptrof(env.unit))),
                Minfo)
  /\ phase' = "built"
  /\ UNCHANGED <<env, value, cg, ret, pc, vregs, flags, executed>>

EvalBitfield ==
  /\ phase = "built"
  /\ value' = EvalExpr(built, value.st)
  /\ phase' = "evaluated"
  /\ UNCHANGED <<expr, env, built, cg, ret, pc, vregs, flags, executed>>

NextBitfield ==
  BuildAssign \/ BuildIncDec \/ BuildAssignWith \/ BuildExtract \/ EvalBitfield
SpecBitfield == InitBitfield /\ [][NextBitfield]_vars

\* Bits p..p+w-1 of a unit, moved down to bit 0.
FieldOf(unit, p, w) == BvZext(BvLshr(unit, p), w)
OutsideField(unit, p, w) == {i \in unit : i < p \/ i >= p + w}
\* A value reduced to the field: zero-extended if unsigned, else sign-extended.
Reduce(v, w, type) == IF type.is_unsigned THEN BvZext(v, w) ELSE BvSext(v, w)
OldUnit == BvZext(env.old, UnitBits(env.unit))
OldField == FieldOf(OldUnit, env.position, env.width)
Stored(v) ==
  /\ FieldOf(value.st.mem, env.position, env.width) = BvZext(v, env.width)
  /\ OutsideField(value.st.mem, env.position, env.width)
       = OutsideField(OldUnit, env.position, env.width)

\* C6: after the expression built by assign_bitfield_member, bits p..p+w-1
\* of the unit are the low w bits of val and every other bit of the unit is
\* unchanged, for every old unit, val, p and w with p + w within the unit,
\* w equal to the unit width included.
C6_AssignBitfield ==
  (phase = "evaluated" /\ expr = "EX_ASSIGN") => Stored(env.val)

\* The same for fields narrower than UFixnum.
C6_AssignNarrow ==
  (phase = "evaluated" /\ expr = "EX_ASSIGN" /\ env.width < FixnumBits) => Stored(env.val)

C6_Witness ==
  /\ phase = "evaluated" /\ expr = "EX_ASSIGN"
  /\ env.width = UnitBits(env.unit) /\ env.width < FixnumBits
  /\ env.old = Word /\ env.val = {}
  /\ value.st.mem = {}

\* C7: extract_bitfield_value on a unit just written by
\* assign_bitfield_member with v returns v reduced to the field width,
\* zero-extended for an unsigned and sign-extended for a signed field, for
\* every position and width within the unit and every value of the other
\* bits.
C7_ExtractAfterAssign ==
  (phase = "evaluated" /\ expr = "EX_MEMBER") =>
    value.v = Reduce(env.val, env.width, env.unit)

C7_ExtractNarrow ==
  (phase = "evaluated" /\ expr = "EX_MEMBER" /\ env.width < FixnumBits) =>
    value.v = Reduce(env.val, env.width, env.unit)

C7_Witness ==
  /\ phase = "evaluated" /\ expr = "EX_MEMBER"
  /\ ~env.unit.is_unsigned /\ env.position > 0 /\ env.width = 3
  /\ env.old = Stripes /\ env.val = BvNot(Stripes)
  /\ value.v = BvSext(env.val, env.width)

\* What ++, -- or op= must leave in the field.
NewField ==
  LET a == Reduce(OldField, env.width, env.unit)
      b == value.st.vars.i
  IN CASE expr \in {"EX_PREINC", "EX_POSTINC"} -> BvAdd(a, {0})
       [] expr \in {"EX_PREDEC", "EX_POSTDEC"} -> BvSub(a, {0})
       [] expr = "EX_ADD" -> BvAdd(a, b)
       [] expr = "EX_SUB" -> BvSub(a, b)
       [] expr = "EX_BITAND" -> BvAnd(a, b)
       [] expr = "EX_BITOR" -> BvOr(a, b)
       [] expr = "EX_BITXOR" -> BvXor(a, b)

C8_Holds ==
  /\ value.st.lvals = 1
  /\ Stored(NewField)
  /\ value.v = IF expr \in {"EX_POSTINC", "EX_POSTDEC"}
                 THEN Reduce(OldField, env.width, env.unit)
                 ELSE Reduce(NewField, env.width, env.unit)

\* C8: ++, -- (prefix and postfix) and compound assignment of a bitfield
\* member evaluate the l-value once, store (old field value op operand)
\* reduced to the field width leaving the other bits of the unit unchanged,
\* and yield the new field value (prefix, compound) or the old one (postfix),
\* for every position and width within the unit.
C8_IncDecAssignWith ==
  (phase = "evaluated" /\ expr \in IncDecKinds \cup AssignWithKinds) => C8_Holds

\* The same for fields below bit 31 of the unit and narrower than UFixnum.
C8_LowFields ==
  (phase = "evaluated" /\ expr \in IncDecKinds \cup AssignWithKinds
     /\ env.width < FixnumBits /\ env.position < type_size(tyInt) * TARGET_CHAR_BIT - 1)
    => C8_Holds

C8_Witness ==
  /\ phase = "evaluated" /\ expr = "EX_POSTDEC"
  /\ env.position = 5 /\ env.width = 3 /\ env.old = {}
  /\ FieldOf(value.st.mem, env.position, env.width) = BvZext(Word, env.width)
  /\ value.v = {}


(***************************************************************************)
(* arch/aarch64/emit_code.c: move_params_to_assigned.  The register        *)
(* parameters are what enumerate_register_params reports: parameter k of a *)
(* register file arrives in argument register k of that file.  A physical  *)
(* register number below MAX_REG_ARGS names the argument register of that  *)
(* number.                                                                 *)
(***************************************************************************)

MAX_FREG_ARGS == 8
POINTER_SIZE == 8
ArchRegParamMapping == [i \in 0 .. (MAX_REG_ARGS - 1) |-> i]
\* kPow2Table[size]
kPow2Table == [size \in 0 .. 8 |-> <<-1, 0, 1, -1, 2, -1, -1, -1, 3>>[size + 1]]
FL_FLOAT == "FL_FLOAT"
FL_DOUBLE == "FL_DOUBLE"

IMMEDIATE_OFFSET(base, offset) == [base |-> base, offset |-> offset, index |-> "none"]
REG_OFFSET(base, index) == [base |-> base, offset |-> 0, index |-> index]
\* An emitted instruction; `param' tells for which parameter it was emitted.
Insn(op, dst, src, param) == [op |-> op, dst |-> dst, src |-> src, param |-> param]
XReg(n, pow) == [file |-> "x", n |-> n, pow |-> pow]
FReg(n, kind) == [file |-> "f", n |-> n, pow |-> IF kind = FL_DOUBLE THEN 3 ELSE 2]

\* The body of the loop over iparams.
IParamInsns(p) ==
  LET pow == kPow2Table[p.size]
      src == XReg(p.index, pow)
      tag == <<"i", p.index>>
  IN IF p.spilled
       THEN LET far == p.offset < -256
                dst == IF far THEN REG_OFFSET("fp", "x9")
                       ELSE IMMEDIATE_OFFSET("fp", p.offset)
                op  == CASE pow = 0 -> "STRB"
                         [] pow = 1 -> "STRH"
                         [] pow \in {2, 3} -> "STR"
            IN (IF far THEN <<Insn("MOV_IMM", "x9", p.offset, tag)>> ELSE <<>>)
                 \o <<Insn(op, dst, src, tag)>>
     ELSE IF ArchRegParamMapping[p.index] /= p.phys
       THEN <<Insn("MOV", XReg(p.phys, pow), src, tag)>>
     ELSE <<>>

\* The body of the loop over fparams.
FParamInsns(p) ==
  LET src == FReg(p.index, p.kind)
      tag == <<"f", p.index>>
  IN IF p.spilled
       THEN <<Insn("STR", IMMEDIATE_OFFSET("fp", p.offset), src, tag)>>
     ELSE IF p.index /= p.phys
       THEN <<Insn("FMOV", FReg(p.phys, p.kind), src, tag)>>
     ELSE <<>>

RECURSIVE Flatten(_)
Flatten(ss) == IF ss = <<>> THEN <<>> ELSE Head(ss) \o Flatten(Tail(ss))

\* The saves of the unnamed argument registers of a variadic function.
VaargsInsns(iparam_count, fparam_count) ==
  [k \in 1 .. (MAX_REG_ARGS - iparam_count) |->
     LET i == iparam_count + k - 1
     IN Insn("STR",
             IMMEDIATE_OFFSET("fp", (i - MAX_REG_ARGS - MAX_FREG_ARGS) * POINTER_SIZE),
             XReg(i, 3), <<"va", i>>)]
  \o
  [k \in 1 .. (MAX_FREG_ARGS - fparam_count) |->
     LET i == fparam_count + k - 1
     IN Insn("STR", IMMEDIATE_OFFSET("fp", (i - MAX_FREG_ARGS) * POINTER_SIZE),
             FReg(i, FL_DOUBLE), <<"va", MAX_REG_ARGS + i>>)]

move_params_to_assigned(func) ==
  Flatten([i \in 1 .. Len(func.iparams) |-> IParamInsns(func.iparams[i])])
    \o Flatten([i \in 1 .. Len(func.fparams) |-> FParamInsns(func.fparams[i])])
    \o (IF func.vaargs THEN VaargsInsns(Len(func.iparams), Len(func.fparams)) ELSE <<>>)

(***************************************************************************)
(* The machine that runs the emitted prologue: the two register files, the *)
(* scratch register x9 and the frame.                                      *)
(***************************************************************************)

ArgVal(index) == index + 1
FArgVal(index) == -(index + 1)
EntryMachine ==
  [x |-> [n \in 0 .. (MAX_REG_ARGS - 1) |-> ArgVal(n)],
   f |-> [n \in 0 .. (MAX_FREG_ARGS - 1) |-> FArgVal(n)],
   x9 |-> 0,
   frame |-> {}]

RegRead(m, r) == IF r.file = "x" THEN m.x[r.n] ELSE m.f[r.n]

ExecInsn(m, insn) ==
  CASE insn.op = "MOV" -> [m EXCEPT !.x[insn.dst.n] = m.x[insn.src.n]]
    [] insn.op = "FMOV" -> [m EXCEPT !.f[insn.dst.n] = m.f[insn.src.n]]
    [] insn.op = "MOV_IMM" -> [m EXCEPT !.x9 = insn.src]
    [] insn.op \in {"STRB", "STRH", "STR"} ->
         LET addr == IF insn.dst.index = "x9" THEN m.x9 ELSE insn.dst.offset
         IN [m EXCEPT !.frame = {s \in @ : s.offset /= addr}
                                  \cup {[offset |-> addr, val |-> RegRead(m, insn.src)]}]

RECURSIVE ExecInsns(_, _)
ExecInsns(m, code) ==
  IF code = <<>> THEN m
  ELSE ExecInsns(Bind(m, LAMBDA v : ExecInsn(v, Head(code))), Tail(code))


(***************************************************************************)
(* Emitting and running the prologue moves of a function                   *)
(***************************************************************************)

MaxParams == 2
ParamSizes == {1, 2, 4, 8}
PhysRegs == 0 .. 2
\* Frame offsets of spilled parameters, below the register save area.
SpillNear(index) == -(MAX_REG_ARGS + MAX_FREG_ARGS + 1 + index) * POINTER_SIZE
SpillFar(index) == SpillNear(index) - 256

IParamChoices ==
  [size : ParamSizes, spilled : {FALSE}, phys : PhysRegs, far : {FALSE}]
    \cup [size : ParamSizes, spilled : {TRUE}, phys : {-1}, far : BOOLEAN]
FParamChoices ==
  [kind : {FL_FLOAT, FL_DOUBLE}, spilled : {FALSE}, phys : 0 .. 1]
    \cup [kind : {FL_FLOAT, FL_DOUBLE}, spilled : {TRUE}, phys : {-1}]

\* Parameters that live in registers live in different ones.
DistinctPhys(cs) ==
  \A i, j \in DOMAIN cs :
    (i /= j /\ ~cs[i].spilled /\ ~cs[j].spilled) => cs[i].phys /= cs[j].phys

IParams(cs) ==
  [k \in DOMAIN cs |->
     [index |-> k - 1, size |-> cs[k].size, spilled |-> cs[k].spilled, phys |-> cs[k].phys,
      offset |-> IF ~cs[k].spilled THEN 0
                 ELSE IF cs[k].far THEN SpillFar(k - 1) ELSE SpillNear(k - 1)]]
FParams(cs) ==
  [k \in DOMAIN cs |->
     [index |-> k - 1, kind |-> cs[k].kind, spilled |-> cs[k].spilled, phys |-> cs[k].phys,
      offset |-> IF cs[k].spilled THEN SpillNear(MAX_REG_ARGS + k - 1) ELSE 0]]

Functions ==
  {[iparams |-> IParams(ic), fparams |-> FParams(fc), vaargs |-> va] :
     ic \in {cs \in SeqsUpTo(IParamChoices, MaxParams) : DistinctPhys(cs)},
     fc \in SeqsUpTo(FParamChoices, 1),
     va \in BOOLEAN}

InitParams ==
  /\ env \in Functions
  /\ expr = Idle
  /\ phase = "entry"
  /\ built = <<>>
  /\ value = EntryMachine
  /\ cg = CgInit
  /\ ret = NoReg
  /\ pc = Idle
  /\ vregs = Idle
  /\ flags = NoFlags
  /\ executed = <<>>

EmitParams ==
  /\ phase = "entry"
  /\ built' = move_params_to_assigned(env)
  /\ phase' = "emitted"
  /\ UNCHANGED <<expr, env, value, cg, ret, pc, vregs, flags, executed>>

\* The prologue runs from its first to its last instruction.
RunParams ==
  /\ phase = "emitted"
  /\ value' = ExecInsns(value, built)
  /\ phase' = "ran"
  /\ UNCHANGED <<expr, env, built, cg, ret, pc, vregs, flags, executed>>

NextParams == EmitParams \/ RunParams
SpecParams == InitParams /\ [][NextParams]_vars

InSlot(m, offset, v) == \E s \in m.frame : s.offset = offset /\ s.val = v
IParamArrived(m, p) ==
  IF p.spilled THEN InSlot(m, p.offset, ArgVal(p.index))
  ELSE m.x[p.phys] = ArgVal(p.index)
FParamArrived(m, p) ==
  IF p.spilled THEN InSlot(m, p.offset, FArgVal(p.index))
  ELSE m.f[p.phys] = FArgVal(p.index)
AllArrived ==
  /\ \A k \in DOMAIN env.iparams : IParamArrived(value, env.iparams[k])
  /\ \A k \in DOMAIN env.fparams : FParamArrived(value, env.fparams[k])
InsnsFor(tag) == {k \in DOMAIN built : built[k].param = tag}
NoneForInPlace ==
  /\ \A k \in DOMAIN env.iparams :
       LET p == env.iparams[k]
       IN (~p.spilled /\ p.phys = ArchRegParamMapping[p.index])
            => InsnsFor(<<"i", p.index>>) = {}
  /\ \A k \in DOMAIN env.fparams :
       LET p == env.fparams[k]
       IN (~p.spilled /\ p.phys = p.index) => InsnsFor(<<"f", p.index>>) = {}

\* C10: after the instructions emitted by move_params_to_assigned every
\* register parameter's destination (its physical register, or its frame
\* slot when spilled) holds the value that arrived in its argument register,
\* for every assignment of parameters to registers, also when a parameter's
\* destination is the argument register of a later parameter; and nothing
\* is emitted for a parameter already in its argument register.
C10_ParamsArrive ==
  phase = "ran" => (AllArrived /\ NoneForInPlace)

\* No parameter is moved into the argument register of a later parameter.
NoLaterSource(ps) ==
  \A i, j \in DOMAIN ps :
    (i < j /\ ~ps[i].spilled) => ps[i].phys /= ps[j].index
C10_ParamsArriveDisjoint ==
  (phase = "ran" /\ NoLaterSource(env.iparams) /\ NoLaterSource(env.fparams))
    => (AllArrived /\ NoneForInPlace)

C10_Witness ==
  /\ phase = "ran"
  /\ Len(env.iparams) = 2
  /\ env.iparams[1].spilled /\ env.iparams[1].offset < -256
  /\ ~env.iparams[2].spilled /\ env.iparams[2].phys = 2
  /\ AllArrived


(***************************************************************************)
(* arch/aarch64/emit_code.c: emit_defun.  The emitted function is a        *)
(* sequence of directives and instructions; emit_bb_irs contributes one    *)
(* item, the body.  The push and pop of the callee-save registers push    *)
(* the used callee-save registers in ascending order, two per 16-byte      *)
(* slot, and pop them in the opposite order.                               *)
(***************************************************************************)

MaxCalleeRegs == 3
IM12_MAX == 4095

\* The callee-save registers of the integer file, ascending; the last one
\* is the frame pointer (GET_FPREG_INDEX).
CalleeSaveRegs == [i \in 1 .. MaxCalleeRegs |-> <<"x", 18 + i>>] \o << <<"x", 29>> >>
CalleeSaveFRegs == << <<"d", 8>>, <<"d", 9>> >>
FP == <<"x", 29>>
LR == <<"x", 30>>
X17 == <<"x", 17>>
SP == <<"sp", 31>>
IM(n) == <<"#", n>>
GET_FPREG_INDEX == FP

Directive(op, arg) == [op |-> op, arg |-> arg]
STP(r1, r2, pre) == [op |-> "STP", r1 |-> r1, r2 |-> r2, ofs |-> pre]
LDP(r1, r2, post) == [op |-> "LDP", r1 |-> r1, r2 |-> r2, ofs |-> post]
STR(r1, pre) == [op |-> "STR", r1 |-> r1, ofs |-> pre]
LDR(r1, post) == [op |-> "LDR", r1 |-> r1, ofs |-> post]
MOV(dst, src) == [op |-> "MOV", dst |-> dst, src |-> src]
SUB(dst, src, v) == [op |-> "SUB", dst |-> dst, src |-> src, value |-> v]
RET == [op |-> "RET"]
mov_immediate(dst, v) == [op |-> "MOV_IMM", dst |-> dst, value |-> v]

UsedSeq(regs, used) == SelectSeq(regs, LAMBDA r : r \in used)

RECURSIVE PushRegs(_)
PushRegs(rs) ==
  IF Len(rs) = 0 THEN <<>>
  ELSE IF Len(rs) = 1 THEN <<STR(rs[1], -16)>>
  ELSE <<STP(rs[1], rs[2], -16)>> \o PushRegs(SubSeq(rs, 3, Len(rs)))

RECURSIVE PopRegs(_)
PopRegs(rs) ==
  IF Len(rs) = 0 THEN <<>>
  ELSE IF Len(rs) = 1 THEN <<LDR(rs[1], 16)>>
  ELSE PopRegs(SubSeq(rs, 3, Len(rs))) \o <<LDP(rs[1], rs[2], 16)>>

aarch64_push_callee_save_regs(used, fused) ==
  PushRegs(UsedSeq(CalleeSaveRegs, used)) \o PushRegs(UsedSeq(CalleeSaveFRegs, fused))
aarch64_pop_callee_save_regs(used, fused) ==
  PopRegs(UsedSeq(CalleeSaveFRegs, fused)) \o PopRegs(UsedSeq(CalleeSaveRegs, used))

\* The locals of emit_defun after `lr_saved = ...'.
DefunFrameSize(func) == ALIGN(func.frame_size, 16)
DefunFpSaved(func) == ~func.no_stmt /\ (DefunFrameSize(func) > 0 \/ func.stack_frame)
DefunLrSaved(func) == ~func.no_stmt /\ func.has_funcall
DefunUsedRegBits(func) ==
  IF DefunFpSaved(func) \/ DefunLrSaved(func)
    THEN func.used_reg_bits \ {GET_FPREG_INDEX}
    ELSE func.used_reg_bits

DefunHeader(func) ==
  <<Directive("TEXT", "")>>
    \o (IF func.global THEN <<Directive("GLOBL", func.name)>>
        ELSE <<Directive("LOCAL", func.name)>>)
    \o <<Directive("ALIGN", 4), Directive("LABEL", func.name)>>

DefunPrologue(func) ==
  IF func.no_stmt THEN <<>>
  ELSE (IF DefunFpSaved(func) \/ DefunLrSaved(func) THEN <<STP(FP, LR, -16)>> ELSE <<>>)
         \o aarch64_push_callee_save_regs(DefunUsedRegBits(func), func.used_freg_bits)
         \o (IF DefunFpSaved(func)
               THEN <<MOV(FP, SP)>>
                      \o (IF DefunFrameSize(func) > 0
                            THEN IF DefunFrameSize(func) <= IM12_MAX
                                   THEN <<SUB(SP, SP, IM(DefunFrameSize(func)))>>
                                   ELSE <<mov_immediate(X17, DefunFrameSize(func)),
                                          SUB(SP, SP, X17)>>
                            ELSE <<>>)
               ELSE <<>>)
         \o move_params_to_assigned(func)

\* The epilogue that pops the callee-save registers by the register
\* allocator's mask instead of the mask the prologue pushed.
DefunEpilogue_ramask(func) ==
  IF func.not_returned THEN <<>>
  ELSE (IF func.no_stmt THEN <<>>
        ELSE (IF DefunFpSaved(func) THEN <<MOV(SP, FP)>> ELSE <<>>)
               \o aarch64_pop_callee_save_regs(func.used_reg_bits, func.used_freg_bits)
               \o (IF DefunFpSaved(func) \/ DefunLrSaved(func)
                     THEN <<LDP(FP, LR, 16)>> ELSE <<>>))
         \o <<RET>>

DefunEpilogue(func) ==
  IF func.not_returned THEN <<>>
  ELSE (IF func.no_stmt THEN <<>>
        ELSE (IF DefunFpSaved(func) THEN <<MOV(SP, FP)>> ELSE <<>>)
               \o aarch64_pop_callee_save_regs(DefunUsedRegBits(func), func.used_freg_bits)
               \o (IF DefunFpSaved(func) \/ DefunLrSaved(func)
                     THEN <<LDP(FP, LR, 16)>> ELSE <<>>))
         \o <<RET>>

\* emit_defun that pushes the FP/LR pair after the callee-save registers.
emit_defun_pairlast(func) ==
  IF func.prototype THEN <<>>
  ELSE DefunHeader(func)
         \o (IF func.no_stmt THEN <<>>
             ELSE aarch64_push_callee_save_regs(DefunUsedRegBits(func), func.used_freg_bits)
                    \o <<STP(FP, LR, -16)>>)
         \o <<[op |-> "BODY"]>>
         \o DefunEpilogue(func)

emit_defun(func) ==
  IF func.prototype THEN <<>>
  ELSE DefunHeader(func) \o DefunPrologue(func) \o <<[op |-> "BODY"]>>
         \o DefunEpilogue(func)


(***************************************************************************)
(* The machine that runs an emitted function: SP, the registers the        *)
(* function may save, and the stack words it writes.  The body writes the  *)
(* registers the allocator gave it (the used masks, LR when it calls, the  *)
(* scratch x17), never the frame pointer of a frame it owns, writes its    *)
(* frame, and leaves SP where it found it.                                 *)
(***************************************************************************)

SP0 == 2 ^ 13
EntryVal(r) == -(r[2] + 1) - (IF r[1] = "d" THEN 100 ELSE 0)
Clobbered(r) == EntryVal(r) - 1000
DefunRegs ==
  {CalleeSaveRegs[i] : i \in 1 .. Len(CalleeSaveRegs)}
    \cup {CalleeSaveFRegs[i] : i \in 1 .. Len(CalleeSaveFRegs)} \cup {LR, X17}
DefunEntry == [sp |-> SP0, regs |-> [r \in DefunRegs |-> EntryVal(r)], stack |-> <<>>]

StackRead(m, addr) == IF addr \in DOMAIN m.stack THEN m.stack[addr] ELSE Clobbered(X17)
StackWrite(stack, addr, v) == [a \in DOMAIN stack \cup {addr} |-> IF a = addr THEN v ELSE stack[a]]
ReadOpr(m, r) ==
  IF r = SP THEN m.sp ELSE IF r[1] = "#" THEN r[2] ELSE m.regs[r]

BodyWrites(func) ==
  IF func.no_stmt THEN {}
  ELSE (func.used_reg_bits \ (IF DefunFpSaved(func) THEN {FP} ELSE {}))
         \cup func.used_freg_bits
         \cup (IF func.has_funcall THEN {LR} ELSE {})
         \cup {X17}

ExecBody(m, func) ==
  [m EXCEPT !.regs = [r \in DefunRegs |-> IF r \in BodyWrites(func) THEN Clobbered(r) ELSE @[r]],
            !.stack = IF DefunFpSaved(func) /\ DefunFrameSize(func) > 0
                        THEN StackWrite(StackWrite(@, m.sp, Clobbered(X17)),
                                        m.sp + DefunFrameSize(func) - 8, Clobbered(X17))
                        ELSE @]

ExecDefunInsn(m, insn, func) ==
  CASE insn.op = "STP" ->
         [m EXCEPT !.sp = @ + insn.ofs,
                   !.stack = StackWrite(StackWrite(@, m.sp + insn.ofs, m.regs[insn.r1]),
                                        m.sp + insn.ofs + 8, m.regs[insn.r2])]
    [] insn.op = "STR" ->
         [m EXCEPT !.sp = @ + insn.ofs,
                   !.stack = StackWrite(@, m.sp + insn.ofs, m.regs[insn.r1])]
    [] insn.op = "LDP" ->
         [m EXCEPT !.sp = @ + insn.ofs,
                   !.regs = [@ EXCEPT ![insn.r1] = StackRead(m, m.sp),
                                      ![insn.r2] = StackRead(m, m.sp + 8)]]
    [] insn.op = "LDR" ->
         [m EXCEPT !.sp = @ + insn.ofs,
                   !.regs = [@ EXCEPT ![insn.r1] = StackRead(m, m.sp)]]
    [] insn.op = "MOV" ->
         IF insn.dst = SP THEN [m EXCEPT !.sp = ReadOpr(m, insn.src)]
         ELSE [m EXCEPT !.regs = [@ EXCEPT ![insn.dst] = ReadOpr(m, insn.src)]]
    [] insn.op = "MOV_IMM" -> [m EXCEPT !.regs = [@ EXCEPT ![insn.dst] = insn.value]]
    [] insn.op = "SUB" ->
         [m EXCEPT !.sp = ReadOpr(m, insn.src) - ReadOpr(m, insn.value)]
    [] insn.op = "BODY" -> ExecBody(m, func)
    [] OTHER -> m

FrameSizes == {0, 8, 2 ^ 12 + 8}
DefunFunctions ==
  {[name |-> "f", prototype |-> pr, global |-> gl, no_stmt |-> ns, frame_size |-> fs,
    stack_frame |-> sf, has_funcall |-> hf, used_reg_bits |-> used,
    used_freg_bits |-> fused, not_returned |-> nr,
    iparams |-> <<>>, fparams |-> <<>>, vaargs |-> FALSE] :
     pr \in {FALSE}, gl \in BOOLEAN, ns \in BOOLEAN, fs \in FrameSizes, sf \in BOOLEAN,
     hf \in BOOLEAN, used \in SUBSET {CalleeSaveRegs[i] : i \in 1 .. Len(CalleeSaveRegs)},
     fused \in {{}, {CalleeSaveFRegs[1]}, {CalleeSaveFRegs[1], CalleeSaveFRegs[2]}},
     nr \in BOOLEAN}
    \cup
  {[name |-> "f", prototype |-> TRUE, global |-> TRUE, no_stmt |-> TRUE, frame_size |-> 0,
    stack_frame |-> FALSE, has_funcall |-> FALSE, used_reg_bits |-> {},
    used_freg_bits |-> {}, not_returned |-> FALSE,
    iparams |-> <<>>, fparams |-> <<>>, vaargs |-> FALSE]}

InitDefun ==
  /\ env \in DefunFunctions
  /\ expr = Idle
  /\ phase = "entry"
  /\ built = <<>>
  /\ value = DefunEntry
  /\ cg = CgInit
  /\ ret = NoReg
  /\ pc = 0
  /\ vregs = Idle
  /\ flags = NoFlags
  /\ executed = <<>>

EmitDefun ==
  /\ phase = "entry"
  /\ built' = emit_defun(env)
  /\ phase' = "emitted"
  /\ pc' = 1
  /\ UNCHANGED <<expr, env, value, cg, ret, vregs, flags, executed>>

\* The processor runs the item at pc; RET leaves the function.
StepDefun ==
  /\ phase = "emitted"
  /\ pc <= Len(built)
  /\ value' = ExecDefunInsn(value, built[pc], env)
  /\ pc' = pc + 1
  /\ phase' = IF built[pc].op = "RET" THEN "returned" ELSE phase
  /\ UNCHANGED <<expr, env, built, cg, ret, vregs, flags, executed>>

NextDefun == EmitDefun \/ StepDefun
SpecDefun == InitDefun /\ [][NextDefun]_vars


\* The pushes of the prologue and the pops of the epilogue, in order.
DefunBodyPos == CHOOSE i \in 1 .. Len(built) : built[i].op = "BODY"
DefunPushes == SelectSeq(SubSeq(built, 1, DefunBodyPos), LAMBDA i : i.op \in {"STP", "STR"})
DefunPops ==
  SelectSeq(SubSeq(built, DefunBodyPos, Len(built)), LAMBDA i : i.op \in {"LDP", "LDR"})
Mirrors(pop, push) ==
  /\ pop.ofs = -push.ofs
  /\ \/ pop.op = "LDP" /\ push.op = "STP" /\ pop.r1 = push.r1 /\ pop.r2 = push.r2
     \/ pop.op = "LDR" /\ push.op = "STR" /\ pop.r1 = push.r1
DefunSavedRegs == DefunRegs \ {X17}

\* C11: the epilogue of emit_defun undoes the prologue in reverse order:
\* SP is restored from FP exactly when FP was set up, every pop mirrors the
\* push at the opposite position (same registers, FP/LR included), and at
\* RET the stack pointer, FP, LR and the callee-save registers have their
\* values of function entry.
C11_EpilogueMirrors ==
  phase = "returned" =>
    /\ (\E i \in 1 .. Len(built) : built[i] = MOV(SP, FP))
         <=> (\E i \in 1 .. Len(built) : built[i] = MOV(FP, SP))
    /\ Len(DefunPops) = Len(DefunPushes)
    /\ \A i \in 1 .. Len(DefunPops) :
         Mirrors(DefunPops[i], DefunPushes[Len(DefunPushes) + 1 - i])
    /\ value.sp = SP0
    /\ \A r \in DefunSavedRegs : value.regs[r] = EntryVal(r)

\* A function with a frame too large for an immediate, an odd number of
\* callee-save registers and a call has returned.
C11_Witness ==
  /\ phase = "returned"
  /\ DefunFrameSize(env) > IM12_MAX
  /\ env.has_funcall
  /\ Cardinality(env.used_reg_bits \ {FP}) = 1
  /\ FP \in env.used_reg_bits
  /\ env.used_freg_bits /= {}
  /\ \E i \in 1 .. Len(built) : built[i] = MOV(SP, FP)
  /\ \E r \in DefunSavedRegs : r \in BodyWrites(env)

IsCalleePush(insn) == insn.op \in {"STP", "STR"} /\ insn /= STP(FP, LR, -16)
PairFirst ==
  \E i \in 1 .. Len(built) :
    /\ built[i] = STP(FP, LR, -16)
    /\ \A j \in 1 .. Len(built) : IsCalleePush(built[j]) => i < j
NoPush == \A i \in 1 .. Len(built) : built[i].op \notin {"STP", "STR"}

\* C12 as stated: whenever the body has a non-asm statement the prologue
\* pushes the FP/LR pair before any callee-save register; when it has none
\* no prologue push is emitted.
C12_PairWheneverStmt ==
  (phase /= "entry" /\ ~env.prototype) =>
    IF env.no_stmt THEN NoPush ELSE PairFirst

\* C12 amended: the FP/LR pair is pushed, before any callee-save register,
\* exactly when the body has a non-asm statement and the function has a
\* frame (frame size above 0 or RAF_STACK_FRAME) or makes a call; when the
\* body has no non-asm statement no prologue push is emitted.
C12_PairWhenFrameOrCall ==
  (phase /= "entry" /\ ~env.prototype) =>
    IF env.no_stmt THEN NoPush
    ELSE IF env.frame_size > 0 \/ env.stack_frame \/ env.has_funcall THEN PairFirst
    ELSE \A i \in 1 .. Len(built) : built[i] /= STP(FP, LR, -16)

\* A function that calls, with two callee-save registers pushed after the
\* pair; and a leaf function without frame that pushes a callee-save
\* register and no pair.
C12_Witness ==
  /\ phase = "emitted"
  /\ ~env.no_stmt /\ env.has_funcall /\ ~env.stack_frame /\ env.frame_size = 0
  /\ PairFirst
  /\ \E j \in 1 .. Len(built) : IsCalleePush(built[j]) /\ built[j].op = "STP"


(***************************************************************************)
(* arch/riscv64/ir_riscv64.c: the register tables, the save and restore    *)
(* of callee-save and caller-save registers, PRECALL and CALL.             *)
(***************************************************************************)

kReg64s ==
  [i \in 0 .. 21 |->
     <<"a0", "a1", "a2", "a3", "a4", "a5", "a6", "a7",
       "s2", "s3", "s4", "s5", "s6", "s7", "s8", "s9", "s10", "s11", "fp",
       "t0", "t1", "t2">>[i + 1]]
PHYSICAL_REG_MAX == Cardinality(DOMAIN kReg64s)
kCalleeSaveRegs == <<8, 9, 10, 11, 12, 13, 14, 15, 16, 17, 18>>
kCallerSaveRegs == <<19, 20, 21>>
kTmpReg == "s1"
kFReg64s ==
  [i \in 0 .. 31 |->
     <<"fa0", "fa1", "fa2", "fa3", "fa4", "fa5", "fa6", "fa7",
       "fs0", "fs1", "fs2", "fs3", "fs4", "fs5", "fs6", "fs7", "fs8", "fs9", "fs10",
       "fs11",
       "ft0", "ft1", "ft2", "ft3", "ft4", "ft5", "ft6", "ft7", "ft8", "ft9", "ft10",
       "ft11">>[i + 1]]
kCalleeSaveFRegs == <<8, 9, 10, 11, 12, 13, 14, 15, 17, 18, 19>>
kCallerSaveFRegs == <<20, 21, 22, 23, 24, 25, 26, 27, 28, 29, 30, 31>>

\* An emitted RISC-V instruction.  Loads and stores address ofs(base).
RvInsn(op, rd, rs, imm) == [op |-> op, rd |-> rd, rs |-> rs, imm |-> imm]
RvADDI(rd, rs, imm) == RvInsn("ADDI", rd, rs, imm)
RvStore(op, reg, ofs, base) == RvInsn(op, reg, base, ofs)
RvLoad(op, reg, ofs, base) == RvInsn(op, reg, base, ofs)

\* enum_callee_save_regs: the names of the registers of `indices' whose bit
\* is set, in the order of `indices'.
enum_callee_save_regs(bit, indices, regs) ==
  [k \in 1 .. Len(SelectSeq(indices, LAMBDA i : i \in bit)) |->
     regs[SelectSeq(indices, LAMBDA i : i \in bit)[k]]]

PushCalleeInsns(saves, fsaves) ==
  (IF ALIGN(Len(saves) + Len(fsaves), 2) > 0
     THEN <<RvADDI("sp", "sp", -POINTER_SIZE * ALIGN(Len(saves) + Len(fsaves), 2))>>
     ELSE <<>>)
    \o [i \in 1 .. Len(saves) |->
          RvStore("SD", saves[i],
                  (Len(saves) + Len(fsaves) - 1 - (i - 1)) * POINTER_SIZE, "sp")]
    \o [i \in 1 .. Len(fsaves) |->
          RvStore("FSD", fsaves[i],
                  (Len(saves) + Len(fsaves) - 1 - Len(saves) - (i - 1)) * POINTER_SIZE,
                  "sp")]

push_callee_save_regs(used, fused) ==
  PushCalleeInsns(enum_callee_save_regs(used, kCalleeSaveRegs, kReg64s),
                  enum_callee_save_regs(fused, kCalleeSaveFRegs, kFReg64s))

PopCalleeInsns(saves, fsaves) ==
  IF Len(saves) + Len(fsaves) = 0 THEN <<>>
  ELSE [k \in 1 .. Len(fsaves) |->
          RvLoad("FLD", fsaves[Len(fsaves) + 1 - k],
                 (Len(saves) + Len(fsaves) - 1 - Len(saves) - (Len(fsaves) - k))
                   * POINTER_SIZE, "sp")]
         \o [k \in 1 .. Len(saves) |->
               RvLoad("LD", saves[Len(saves) + 1 - k],
                      (Len(saves) - 1 - (Len(saves) - k)) * POINTER_SIZE, "sp")]
         \o <<RvADDI("sp", "sp", POINTER_SIZE * ALIGN(Len(saves) + Len(fsaves), 2))>>

pop_callee_save_regs(used, fused) ==
  PopCalleeInsns(enum_callee_save_regs(used, kCalleeSaveRegs, kReg64s),
                 enum_callee_save_regs(fused, kCalleeSaveFRegs, kFReg64s))

\* ei_store for IR_STORE_S: the instructions that form the target address
\* of a spilled VReg at frame offset `offset'.
StoreTargetInsns(offset) ==
  IF offset >= -4096 /\ offset <= 4096 THEN <<>>
  ELSE <<RvInsn("LI", kTmpReg, "", offset), RvInsn("ADD", kTmpReg, kTmpReg, "fp")>>


(***************************************************************************)
(* The RISC-V machine: SP, the named registers and the stack words.        *)
(***************************************************************************)

RvRegs ==
  {kReg64s[i] : i \in DOMAIN kReg64s} \cup {kFReg64s[i] : i \in DOMAIN kFReg64s}
    \cup {kTmpReg, "ra"}
RvRegNo(r) ==
  IF r \in {kTmpReg, "ra"} THEN (IF r = "ra" THEN 98 ELSE 99)
  ELSE IF \E i \in DOMAIN kReg64s : kReg64s[i] = r
    THEN CHOOSE i \in DOMAIN kReg64s : kReg64s[i] = r
    ELSE 32 + (CHOOSE i \in DOMAIN kFReg64s : kFReg64s[i] = r)
RvEntryVal(r) == -(RvRegNo(r) + 1)
RvClobbered(r) == -(RvRegNo(r) + 1001)
RvMemInit(addr) == -(addr + 2001)
RvEntry == [sp |-> SP0, regs |-> [r \in RvRegs |-> RvEntryVal(r)], mem |-> <<>>]

RvMemRead(m, addr) == IF addr \in DOMAIN m.mem THEN m.mem[addr] ELSE RvMemInit(addr)
RvRead(m, r) == IF r = "sp" THEN m.sp ELSE m.regs[r]
RvWrite(m, r, v) ==
  IF r = "sp" THEN [m EXCEPT !.sp = v] ELSE [m EXCEPT !.regs = [@ EXCEPT ![r] = v]]

RvExecInsn(m, insn) ==
  CASE insn.op = "ADDI" -> RvWrite(m, insn.rd, RvRead(m, insn.rs) + insn.imm)
    [] insn.op = "LI" -> RvWrite(m, insn.rd, insn.imm)
    [] insn.op = "ADD" -> RvWrite(m, insn.rd, RvRead(m, insn.rs) + RvRead(m, insn.imm))
    [] insn.op = "SUB" -> RvWrite(m, insn.rd, RvRead(m, insn.rs) - insn.imm)
    [] insn.op = "MV" -> RvWrite(m, insn.rd, RvRead(m, insn.rs))
    [] insn.op \in {"SD", "FSD"} ->
         [m EXCEPT !.mem = StackWrite(@, RvRead(m, insn.rs) + insn.imm, RvRead(m, insn.rd))]
    [] insn.op \in {"LD", "FLD"} ->
         RvWrite(m, insn.rd, RvMemRead(m, RvRead(m, insn.rs) + insn.imm))
    [] OTHER -> m

RECURSIVE RvExecInsns(_, _)
RvExecInsns(m, code) ==
  IF code = <<>> THEN m
  ELSE RvExecInsns(Bind(m, LAMBDA v : RvExecInsn(v, Head(code))), Tail(code))

(***************************************************************************)
(* A function of the RISC-V back-end: the prologue pushes the callee-save  *)
(* registers of the used masks, the body writes the registers of the used  *)
(* masks and stores to a spilled VReg, the epilogue pops.                  *)
(***************************************************************************)

RvMaxUsed == 2
FarOffset == -(2 ^ 13)
RECURSIVE SubsetsUpTo(_, _)
SubsetsUpTo(S, n) ==
  IF n = 0 THEN {{}}
  ELSE SubsetsUpTo(S, n - 1) \cup {T \cup {x} : T \in SubsetsUpTo(S, n - 1), x \in S}
RvFunctions ==
  [used : SubsetsUpTo(DOMAIN kReg64s, RvMaxUsed),
   fused : SubsetsUpTo(DOMAIN kFReg64s, 1),
   spill_offset : {-8, FarOffset}]

InitCallee ==
  /\ env \in RvFunctions
  /\ expr = Idle
  /\ phase = "entry"
  /\ built = <<>>
  /\ value = RvEntry
  /\ cg = CgInit
  /\ ret = NoReg
  /\ pc = Idle
  /\ vregs = Idle
  /\ flags = NoFlags
  /\ executed = <<>>

PushCallee ==
  /\ phase = "entry"
  /\ built' = push_callee_save_regs(env.used, env.fused)
  /\ value' = RvExecInsns(value, built')
  /\ phase' = "pushed"
  /\ UNCHANGED <<expr, env, cg, ret, pc, vregs, flags, executed>>

\* The registers the body writes.
RvBodyWrites(func) ==
  {kReg64s[i] : i \in func.used} \cup {kFReg64s[i] : i \in func.fused}

BodyCallee ==
  /\ phase = "pushed"
  /\ built' = StoreTargetInsns(env.spill_offset)
  /\ value' = RvExecInsns(
                 [value EXCEPT !.regs = [r \in RvRegs |->
                                           IF r \in RvBodyWrites(env) THEN RvClobbered(r)
                                           ELSE @[r]]],
                 built')
  /\ phase' = "body"
  /\ UNCHANGED <<expr, env, cg, ret, pc, vregs, flags, executed>>

PopCallee ==
  /\ phase = "body"
  /\ built' = pop_callee_save_regs(env.used, env.fused)
  /\ value' = RvExecInsns(value, built')
  /\ phase' = "popped"
  /\ UNCHANGED <<expr, env, cg, ret, pc, vregs, flags, executed>>

NextCallee == PushCallee \/ BodyCallee \/ PopCallee
SpecCallee == InitCallee /\ [][NextCallee]_vars

\* The callee-saved registers of the ABI that the back-end can write.
RvAbiCalleeSaved ==
  {"s1", "s2", "s3", "s4", "s5", "s6", "s7", "s8", "s9", "s10", "s11", "fp",
   "fs0", "fs1", "fs2", "fs3", "fs4", "fs5", "fs6", "fs7", "fs8", "fs9", "fs10", "fs11"}

\* C14: every callee-saved register the emitted code can write (the used
\* s2..s11, fp and fs0..fs11, and the scratch s1) is saved by
\* push_callee_save_regs and restored by pop_callee_save_regs: after the
\* pop it holds its value of function entry, and SP is back.
C14_CalleeSaved ==
  phase = "popped" =>
    /\ value.sp = SP0
    /\ \A r \in RvAbiCalleeSaved : value.regs[r] = RvEntryVal(r)

\* With integer registers only and no far spill slot the registers come
\* back.
C14_IntegerOnly ==
  (phase = "popped" /\ env.fused = {} /\ env.spill_offset = -8) =>
    /\ value.sp = SP0
    /\ \A r \in RvAbiCalleeSaved : value.regs[r] = RvEntryVal(r)

\* A function that used fs8 and nothing else has run its epilogue.
C14_Witness ==
  /\ phase = "popped"
  /\ env.fused = {16} /\ env.used = {} /\ env.spill_offset = -8
  /\ value.regs["fs8"] /= RvEntryVal("fs8")


(***************************************************************************)
(* ir_riscv64.c: ei_precall, ei_subsp, ei_call with push_caller_save_regs  *)
(* and pop_caller_save_regs.  A living mask holds the integer register i   *)
(* as bit i and the float register f as bit f + PHYSICAL_REG_MAX.          *)
(***************************************************************************)

is_freg(reg) == reg \in {kFReg64s[i] : i \in DOMAIN kFReg64s}

CallerSaves(living) ==
  [k \in 1 .. Len(SelectSeq(kCallerSaveRegs, LAMBDA i : i \in living)) |->
     kReg64s[SelectSeq(kCallerSaveRegs, LAMBDA i : i \in living)[k]]]
    \o [k \in 1 .. Len(SelectSeq(kCallerSaveFRegs,
                                 LAMBDA f : (f + PHYSICAL_REG_MAX) \in living)) |->
          kFReg64s[SelectSeq(kCallerSaveFRegs,
                             LAMBDA f : (f + PHYSICAL_REG_MAX) \in living)[k]]]

CallerSaveInsns(saves) ==
  [i \in 1 .. Len(saves) |->
     RvStore(IF is_freg(saves[i]) THEN "FSD" ELSE "SD", saves[i],
             (Len(saves) - 1 - (i - 1)) * POINTER_SIZE, "sp")]

\* push_caller_save_regs: the vector it returns and the stores it emits.
push_caller_save_regs(living) ==
  [saves |-> CallerSaves(living), insns |-> CallerSaveInsns(CallerSaves(living))]

pop_caller_save_regs(saves) ==
  [k \in 1 .. Len(saves) |->
     RvLoad(IF is_freg(saves[Len(saves) + 1 - k]) THEN "FLD" ELSE "LD",
            saves[Len(saves) + 1 - k], (k - 1) * POINTER_SIZE, "sp")]

\* (16 - stack_args_size) & 15
PrecallAlign(stack_args_size) == (16 - (stack_args_size % 16)) % 16

\* ei_precall: the PRECALL with caller_saves and stack_aligned filled in,
\* and the instructions.
ei_precall(ir) ==
  [ir |-> [ir EXCEPT !.caller_saves = push_caller_save_regs(ir.living_pregs).saves,
                     !.stack_aligned = PrecallAlign(ir.stack_args_size)],
   insns |-> push_caller_save_regs(ir.living_pregs).insns
               \o (IF PrecallAlign(ir.stack_args_size) > 0
                     THEN <<RvInsn("SUB", "sp", "sp", PrecallAlign(ir.stack_args_size))>>
                     ELSE <<>>)]

\* ei_subsp for a constant operand.
ei_subsp(fixnum) == IF fixnum /= 0 THEN <<RvADDI("sp", "sp", -fixnum)>> ELSE <<>>

\* ei_call; `precall' is the PRECALL as ei_precall left it.
ei_call(ir, precall) ==
  (IF ir.label /= "" THEN <<RvInsn("CALL", "", "", ir.label)>>
   ELSE <<RvInsn("JALR", "", kReg64s[ir.opr1_phys], 0)>>)
    \o (IF precall.stack_aligned + precall.stack_args_size /= 0
          THEN <<RvInsn("ADD_IM", "sp", "sp",
                        precall.stack_aligned + precall.stack_args_size)>>
          ELSE <<>>)
    \o pop_caller_save_regs(precall.caller_saves)
    \o (IF ir.dst_phys >= 0 /\ ir.dst_phys /= 0
          THEN <<RvInsn("MV", kReg64s[ir.dst_phys], kReg64s[0], 0)>>
          ELSE <<>>)

\* What the called function may change: the caller-save registers, the
\* argument registers and ra; it leaves SP and the memory at and above its
\* entry SP alone.
RvCallerSaved ==
  {kReg64s[i] : i \in 0 .. 7} \cup {kFReg64s[i] : i \in 0 .. 7}
    \cup {kReg64s[kCallerSaveRegs[k]] : k \in 1 .. Len(kCallerSaveRegs)}
    \cup {kFReg64s[kCallerSaveFRegs[k]] : k \in 1 .. Len(kCallerSaveFRegs)}
    \cup {"ra"}
RvExecCallee(m) ==
  [m EXCEPT !.regs = [r \in RvRegs |-> IF r \in RvCallerSaved THEN RvClobbered(r) ELSE @[r]]]

RECURSIVE RvExecCode(_, _)
RvExecCode(m, code) ==
  IF code = <<>> THEN m
  ELSE RvExecCode(Bind(m, LAMBDA v :
                         CASE Head(code).op \in {"CALL", "JALR"} -> RvExecCallee(v)
                           [] Head(code).op = "ADD_IM" ->
                                RvWrite(v, Head(code).rd, RvRead(v, Head(code).rs)
                                                            + Head(code).imm)
                           [] OTHER -> RvExecInsn(v, Head(code))),
                  Tail(code))

RvMaxLiving == 2
StackArgsSizes == {0, 8, 16, 24}
LivingBits == {0, 8, 19, 20, 21, 20 + PHYSICAL_REG_MAX, 21 + PHYSICAL_REG_MAX}
RvCalls ==
  [living_pregs : SubsetsUpTo(LivingBits, RvMaxLiving),
   stack_args_size : StackArgsSizes,
   caller_saves : {<<>>}, stack_aligned : {0},
   label : {"f", ""}, opr1_phys : {8}, dst_phys : {-1, 0, 9}]

InitRvCall ==
  /\ env \in RvCalls
  /\ expr = Idle
  /\ phase = "entry"
  /\ built = <<>>
  /\ value = RvEntry
  /\ cg = CgInit
  /\ ret = NoReg
  /\ pc = Idle
  /\ vregs = Idle
  /\ flags = NoFlags
  /\ executed = <<>>

\* IR_PRECALL is emitted and run.
RvPrecall ==
  /\ phase = "entry"
  /\ built' = ei_precall(env).insns
  /\ env' = ei_precall(env).ir
  /\ value' = RvExecInsns(value, built')
  /\ phase' = "precalled"
  /\ UNCHANGED <<expr, cg, ret, pc, vregs, flags, executed>>

\* The outgoing-argument area is reserved (IR_SUBSP) and filled.
RvArgs ==
  /\ phase = "precalled"
  /\ built' = ei_subsp(env.stack_args_size)
                \o [k \in 1 .. (env.stack_args_size \div POINTER_SIZE) |->
                      RvStore("SD", kReg64s[0], (k - 1) * POINTER_SIZE, "sp")]
  /\ value' = RvExecInsns(value, built')
  /\ phase' = "args"
  /\ UNCHANGED <<expr, env, cg, ret, pc, vregs, flags, executed>>

\* IR_CALL is emitted and run; pc keeps SP as it is at the call instruction.
RvCall ==
  /\ phase = "args"
  /\ built' = ei_call(env, env)
  /\ pc' = value.sp
  /\ value' = RvExecCode(value, built')
  /\ phase' = "called"
  /\ UNCHANGED <<expr, env, cg, ret, vregs, flags, executed>>

NextRvCall == RvPrecall \/ RvArgs \/ RvCall
SpecRvCall == InitRvCall /\ [][NextRvCall]_vars

LiveCallerSaved == {CallerSaves(env.living_pregs)[k] : k \in 1 .. Len(CallerSaves(env.living_pregs))}
RestoredExceptDst ==
  \A r \in LiveCallerSaved :
    (env.dst_phys < 0 \/ r /= kReg64s[env.dst_phys]) => value.regs[r] = RvEntryVal(r)

\* C13: for every PRECALL/CALL pair each live caller-save register is saved
\* into stack space reserved by lowering SP (no memory at or above the SP
\* before PRECALL is written), SP is a multiple of 16 at the call, and after
\* CALL each saved register is restored and SP has its value before PRECALL.
C13_CallerSaves ==
  phase = "called" =>
    /\ \A a \in DOMAIN value.mem : a < SP0
    /\ pc % 16 = 0
    /\ RestoredExceptDst
    /\ value.sp = SP0

\* The alignment, the restored registers and the balance of SP.
C13_AlignedRestored ==
  phase = "called" => (pc % 16 = 0 /\ RestoredExceptDst /\ value.sp = SP0)

\* A call with t0 live and one stack argument has returned; t0 was saved
\* at the SP of before PRECALL.
C13_Witness ==
  /\ phase = "called"
  /\ env.living_pregs = {19} /\ env.stack_args_size = 8
  /\ SP0 \in DOMAIN value.mem /\ value.mem[SP0] = RvEntryVal("t0")


(***************************************************************************)
(* ir_riscv64.c: tweak_irs.  An IR of this back-end carries its operands   *)
(* (VRegs with vsize, the flonum flag and, for constants, the value), the  *)
(* IRF_UNSIGNED flag and, for COND and JMP, the condition kind with its    *)
(* COND_UNSIGNED bit apart.  A VReg's physical register is its number.     *)
(***************************************************************************)

RvVReg(virt, vsize, flonum) ==
  [const |-> FALSE, fixnum |-> {}, vsize |-> vsize, flonum |-> flonum, virt |-> virt]
RvConst(fixnum, vsize) ==
  [const |-> TRUE, fixnum |-> fixnum, vsize |-> vsize, flonum |-> FALSE, virt |-> -1]
RvNull == [const |-> FALSE, fixnum |-> {}, vsize |-> 0, flonum |-> FALSE, virt |-> -2]
RvCond(kind, unsigned) == [kind |-> kind, unsigned |-> unsigned]
RvIR(kind, dst, opr1, opr2, unsigned, cond) ==
  [kind |-> kind, dst |-> dst, opr1 |-> opr1, opr2 |-> opr2, unsigned |-> unsigned,
   cond |-> cond]
VRegSize4 == 2

is_im12(x) == ~BvSlt(BvOfInt(2 ^ 11 - 1), x) /\ ~BvSlt(x, BvOfInt(-(2 ^ 11)))

\* The state of the loop body of tweak_irs for one instruction: the
\* instructions inserted before it, the instruction, the next VReg number.
swap_opr12(r) == [r EXCEPT !.ir.opr1 = r.ir.opr2, !.ir.opr2 = r.ir.opr1]

\* insert_const_mov(&ir->opr1, ...) and insert_const_mov(&ir->opr2, ...)
insert_const_mov1(r) ==
  [pre |-> Append(r.pre, RvIR("IR_MOV", RvVReg(r.nv, r.ir.opr1.vsize, FALSE), r.ir.opr1,
                              RvNull, r.ir.unsigned, r.ir.cond)),
   ir  |-> [r.ir EXCEPT !.opr1 = RvVReg(r.nv, r.ir.opr1.vsize, FALSE)],
   nv  |-> r.nv + 1]
insert_const_mov2(r) ==
  [pre |-> Append(r.pre, RvIR("IR_MOV", RvVReg(r.nv, r.ir.opr2.vsize, FALSE), r.ir.opr2,
                              RvNull, r.ir.unsigned, r.ir.cond)),
   ir  |-> [r.ir EXCEPT !.opr2 = RvVReg(r.nv, r.ir.opr2.vsize, FALSE)],
   nv  |-> r.nv + 1]

Const1(r) == r.ir.opr1.const
Const2(r) == r.ir.opr2.const
\* fixnum > 0x0fff || fixnum < -0x0fff
ADD_IM_MAX == 4095
SLT_IM_MAX == 4096
OutOfAddRange(x) == BvSlt(BvOfInt(ADD_IM_MAX), x) \/ BvSlt(x, BvOfInt(-ADD_IM_MAX))
\* fixnum < -4096 || fixnum > 4096
OutOfSltRange(x) == BvSlt(x, BvOfInt(-SLT_IM_MAX)) \/ BvSlt(BvOfInt(SLT_IM_MAX), x)

TweakAdd(r) ==
  Bind(IF Const1(r) THEN swap_opr12(r) ELSE r, LAMBDA a :
    IF Const2(a) /\ OutOfAddRange(a.ir.opr2.fixnum) THEN insert_const_mov2(a) ELSE a)

TweakSub(r) ==
  IF Const1(r) /\ r.ir.opr1.fixnum = {}
    THEN [r EXCEPT !.ir.kind = "IR_NEG", !.ir.opr1 = r.ir.opr2, !.ir.opr2 = RvNull]
  ELSE Bind(IF Const1(r) THEN insert_const_mov1(r) ELSE r, LAMBDA a :
         IF Const2(a) /\ OutOfAddRange(a.ir.opr2.fixnum) THEN insert_const_mov2(a) ELSE a)

\* tweak_irs for MUL, DIV and MOD that moves a constant first operand only.
TweakMul_first(r) == IF Const1(r) THEN insert_const_mov1(r) ELSE r

TweakMul(r) ==
  Bind(IF Const1(r) THEN insert_const_mov1(r) ELSE r, LAMBDA a :
    IF Const2(a) THEN insert_const_mov2(a) ELSE a)

TweakBit(r) ==
  Bind(IF Const1(r) THEN insert_const_mov1(r) ELSE r, LAMBDA a :
    IF Const2(a) /\ ~is_im12(a.ir.opr2.fixnum) THEN insert_const_mov2(a) ELSE a)

TweakCond(r) ==
  CASE r.ir.cond.kind \in {COND_EQ, COND_NE} ->
         IF ~Const2(r) \/ r.ir.opr2.fixnum /= {}
           THEN [pre |-> Append(r.pre, RvIR("IR_SUB", r.ir.dst, r.ir.opr1, r.ir.opr2,
                                            r.ir.unsigned, RvCond(COND_ANY, FALSE))),
                 ir  |-> [r.ir EXCEPT !.opr1 = r.ir.dst,
                                      !.opr2 = RvConst({}, r.ir.dst.vsize)],
                 nv  |-> r.nv]
           ELSE r
    [] r.ir.cond.kind \in {COND_LE, COND_GT} ->
         IF Const2(r) THEN insert_const_mov2(r) ELSE r
    [] r.ir.cond.kind \in {COND_LT, COND_GE} ->
         IF Const2(r) /\ OutOfSltRange(r.ir.opr2.fixnum) THEN insert_const_mov2(r) ELSE r
    [] OTHER -> r

TweakJmp(r) ==
  IF r.ir.opr1 /= RvNull /\ r.ir.opr1.flonum
    THEN [pre |-> Append(r.pre,
                         RvIR("IR_COND", RvVReg(r.nv, VRegSize4, FALSE), r.ir.opr1,
                              r.ir.opr2, FALSE,
                              RvCond(IF r.ir.cond.kind = COND_NE THEN COND_EQ
                                     ELSE r.ir.cond.kind, r.ir.cond.unsigned))),
          ir  |-> [r.ir EXCEPT !.cond = RvCond(IF r.ir.cond.kind = COND_NE THEN COND_EQ
                                               ELSE COND_NE, FALSE),
                               !.opr1 = RvVReg(r.nv, VRegSize4, FALSE),
                               !.opr2 = RvConst({}, VRegSize4)],
          nv  |-> r.nv + 1]
  ELSE IF r.ir.opr2 /= RvNull /\ Const2(r) /\ r.ir.opr2.fixnum /= {}
    THEN insert_const_mov2(r)
  ELSE r

\* The switch of tweak_irs on one instruction.
TweakOne(r) ==
  CASE r.ir.kind = "IR_LOAD" -> IF Const1(r) THEN insert_const_mov1(r) ELSE r
    [] r.ir.kind = "IR_STORE" -> IF Const2(r) THEN insert_const_mov2(r) ELSE r
    [] r.ir.kind = "IR_ADD" -> TweakAdd(r)
    [] r.ir.kind = "IR_SUB" -> TweakSub(r)
    [] r.ir.kind \in {"IR_MUL", "IR_DIV", "IR_MOD"} -> TweakMul(r)
    [] r.ir.kind \in {"IR_BITAND", "IR_BITOR", "IR_BITXOR"} -> TweakBit(r)
    [] r.ir.kind \in {"IR_LSHIFT", "IR_RSHIFT"} ->
         IF Const1(r) THEN insert_const_mov1(r) ELSE r
    [] r.ir.kind = "IR_COND" -> TweakCond(r)
    [] r.ir.kind = "IR_JMP" -> TweakJmp(r)
    [] r.ir.kind = "IR_TJMP" -> insert_const_mov1(r)
    [] r.ir.kind = "IR_PUSHARG" -> IF Const1(r) THEN insert_const_mov1(r) ELSE r
    [] OTHER -> r

\* tweak_irs on the instructions of one basic block, from instruction j on;
\* nv is the number the register allocator gives the next VReg.
RECURSIVE TweakFrom(_, _, _)
TweakFrom(irs, j, nv) ==
  IF j > Len(irs) THEN <<>>
  ELSE Bind(TweakOne([pre |-> <<>>, ir |-> irs[j], nv |-> nv]), LAMBDA r :
         r.pre \o <<r.ir>> \o TweakFrom(irs, j + 1, r.nv))

tweak_irs(irs, nv) == TweakFrom(irs, 1, nv)


(***************************************************************************)
(* ir_riscv64.c: the emitters of the arithmetic, bit and compare           *)
(* instructions.  An instruction whose name ends in I or IW (and SLTIU)    *)
(* carries a constant in imm; any other carries a register name or none.   *)
(***************************************************************************)

XR(v) == kReg64s[v.virt]
FR(v) == kFReg64s[v.virt]
ImmOps == {"ADDI", "ADDIW", "ANDI", "ORI", "XORI", "SLTI", "SLTIU"}

ei_add(ir) ==
  IF ir.dst.flonum
    THEN <<RvInsn(IF ir.dst.vsize = VRegSize4 THEN "FADD_S" ELSE "FADD_D",
                  FR(ir.dst), FR(ir.opr1), FR(ir.opr2))>>
  ELSE IF ir.dst.vsize <= 2 /\ ~ir.unsigned
    THEN IF ir.opr2.const THEN <<RvInsn("ADDIW", XR(ir.dst), XR(ir.opr1), ir.opr2.fixnum)>>
         ELSE <<RvInsn("ADDW", XR(ir.dst), XR(ir.opr1), XR(ir.opr2))>>
  ELSE IF ir.opr2.const THEN <<RvInsn("ADDI", XR(ir.dst), XR(ir.opr1), ir.opr2.fixnum)>>
  ELSE <<RvInsn("ADD", XR(ir.dst), XR(ir.opr1), XR(ir.opr2))>>

ei_sub(ir) ==
  IF ir.dst.flonum
    THEN <<RvInsn(IF ir.dst.vsize = VRegSize4 THEN "FSUB_S" ELSE "FSUB_D",
                  FR(ir.dst), FR(ir.opr1), FR(ir.opr2))>>
  ELSE IF ir.dst.vsize <= 2 /\ ~ir.unsigned
    THEN IF ir.opr2.const
           THEN <<RvInsn("ADDIW", XR(ir.dst), XR(ir.opr1), BvNeg(ir.opr2.fixnum))>>
         ELSE <<RvInsn("SUBW", XR(ir.dst), XR(ir.opr1), XR(ir.opr2))>>
  ELSE IF ir.opr2.const
    THEN <<RvInsn("ADDI", XR(ir.dst), XR(ir.opr1), BvNeg(ir.opr2.fixnum))>>
  ELSE <<RvInsn("SUB", XR(ir.dst), XR(ir.opr1), XR(ir.opr2))>>

\* ei_bitand, ei_bitor, ei_bitxor
ei_bitop(ir) ==
  IF ir.opr2.const
    THEN <<RvInsn(CASE ir.kind = "IR_BITAND" -> "ANDI" [] ir.kind = "IR_BITOR" -> "ORI"
                    [] ir.kind = "IR_BITXOR" -> "XORI",
                  XR(ir.dst), XR(ir.opr1), ir.opr2.fixnum)>>
    ELSE <<RvInsn(CASE ir.kind = "IR_BITAND" -> "AND" [] ir.kind = "IR_BITOR" -> "OR"
                    [] ir.kind = "IR_BITXOR" -> "XOR",
                  XR(ir.dst), XR(ir.opr1), XR(ir.opr2))>>

\* SLT/SLTU/SLTI/SLTIU dst, o1, o2
EmitSlt(dst, o1, o2, unsigned) ==
  IF o2.const
    THEN RvInsn(IF unsigned THEN "SLTIU" ELSE "SLTI", XR(dst), XR(o1), o2.fixnum)
    ELSE RvInsn(IF unsigned THEN "SLTU" ELSE "SLT", XR(dst), XR(o1), XR(o2))

ei_cond(ir) ==
  IF ir.opr1.flonum
    THEN CASE ir.cond.kind \in {COND_EQ, COND_NE} ->
                <<RvInsn(IF ir.opr1.vsize = VRegSize4 THEN "FEQ_S" ELSE "FEQ_D",
                         XR(ir.dst), FR(ir.opr1), FR(ir.opr2))>>
                  \o (IF ir.cond.kind = COND_NE
                        THEN <<RvInsn("SEQZ", XR(ir.dst), XR(ir.dst), "")>> ELSE <<>>)
           [] ir.cond.kind = COND_GT ->
                <<RvInsn(IF ir.opr1.vsize = VRegSize4 THEN "FLT_S" ELSE "FLT_D",
                         XR(ir.dst), FR(ir.opr2), FR(ir.opr1))>>
           [] ir.cond.kind = COND_LT ->
                <<RvInsn(IF ir.opr1.vsize = VRegSize4 THEN "FLT_S" ELSE "FLT_D",
                         XR(ir.dst), FR(ir.opr1), FR(ir.opr2))>>
           [] ir.cond.kind = COND_GE ->
                <<RvInsn(IF ir.opr1.vsize = VRegSize4 THEN "FLE_S" ELSE "FLE_D",
                         XR(ir.dst), FR(ir.opr2), FR(ir.opr1))>>
           [] ir.cond.kind = COND_LE ->
                <<RvInsn(IF ir.opr1.vsize = VRegSize4 THEN "FLE_S" ELSE "FLE_D",
                         XR(ir.dst), FR(ir.opr1), FR(ir.opr2))>>
  ELSE CASE ir.cond.kind = COND_EQ -> <<RvInsn("SEQZ", XR(ir.dst), XR(ir.opr1), "")>>
         [] ir.cond.kind = COND_NE -> <<RvInsn("SNEZ", XR(ir.dst), XR(ir.opr1), "")>>
         [] ir.cond.kind = COND_LT ->
              <<EmitSlt(ir.dst, ir.opr1, ir.opr2, ir.cond.unsigned)>>
         [] ir.cond.kind = COND_GT ->
              <<EmitSlt(ir.dst, ir.opr2, ir.opr1, ir.cond.unsigned)>>
         [] ir.cond.kind = COND_LE ->
              <<EmitSlt(ir.dst, ir.opr2, ir.opr1, ir.cond.unsigned),
                RvInsn("NEG", XR(ir.dst), XR(ir.dst), ""),
                RvInsn("ADDI", XR(ir.dst), XR(ir.dst), BvOfInt(1))>>
         [] ir.cond.kind = COND_GE ->
              <<EmitSlt(ir.dst, ir.opr1, ir.opr2, ir.cond.unsigned),
                RvInsn("NEG", XR(ir.dst), XR(ir.dst), ""),
                RvInsn("ADDI", XR(ir.dst), XR(ir.dst), BvOfInt(1))>>

ei_mov(ir) ==
  IF ir.dst.flonum
    THEN IF ir.opr1.virt /= ir.dst.virt THEN <<RvInsn("FMV_D", FR(ir.dst), FR(ir.opr1), "")>>
         ELSE <<>>
  ELSE IF ir.opr1.const THEN <<RvInsn("LI", XR(ir.dst), "", ir.opr1.fixnum)>>
  ELSE IF ir.opr1.virt /= ir.dst.virt THEN <<RvInsn("MV", XR(ir.dst), XR(ir.opr1), "")>>
  ELSE <<>>

ei_neg(ir) == <<RvInsn("NEG", XR(ir.dst), XR(ir.opr1), "")>>

\* The table of emit_bb_irs, for the instructions whose emitter is above;
\* any other instruction stands for its own code.
EmitOne(ir) ==
  CASE ir.kind = "IR_ADD" -> ei_add(ir)
    [] ir.kind = "IR_SUB" -> ei_sub(ir)
    [] ir.kind \in {"IR_BITAND", "IR_BITOR", "IR_BITXOR"} -> ei_bitop(ir)
    [] ir.kind = "IR_COND" -> ei_cond(ir)
    [] ir.kind = "IR_MOV" -> ei_mov(ir)
    [] ir.kind = "IR_NEG" -> ei_neg(ir)
    [] OTHER -> <<RvInsn(ir.kind, "", "", "")>>


(***************************************************************************)
(* tweak_irs applied to the instructions of a block, and the code emitted  *)
(* for the tweaked block.                                                  *)
(***************************************************************************)

TweakConsts ==
  {BvOfInt(n) : n \in {0, 1, 2 ^ 11 - 1, 2 ^ 11, 2 ^ 12 - 1, 2 ^ 12, 2 ^ 12 + 1,
                       -(2 ^ 11), -(2 ^ 11) - 1, -(2 ^ 12) + 1, -(2 ^ 12), -(2 ^ 12) - 1,
                       2 ^ 17}}
FirstFresh == 4
TweakVSizes == {2, 3}
RegOperand(n, vsize) == RvVReg(n, vsize, FALSE)
NoCond == RvCond(COND_ANY, FALSE)

\* dst = opr1 op opr2 with at most one constant operand.
BopOperands(vs) ==
  {<<RegOperand(1, vs), RegOperand(2, vs)>>}
    \cup {<<RegOperand(1, vs), RvConst(c, vs)>> : c \in TweakConsts}
    \cup {<<RvConst(c, vs), RegOperand(2, vs)>> : c \in TweakConsts}
BopInputs(kinds) ==
  UNION {{RvIR(k, RegOperand(3, vs), o[1], o[2], u, NoCond) :
            k \in kinds, u \in BOOLEAN, o \in BopOperands(vs)} : vs \in TweakVSizes}
FloatInputs ==
  {RvIR(k, RvVReg(3, vs, TRUE), RvVReg(1, vs, TRUE), RvVReg(2, vs, TRUE), FALSE, NoCond) :
     k \in {"IR_ADD", "IR_SUB"}, vs \in TweakVSizes}
CondOperands(vs) == {RegOperand(2, vs)} \cup {RvConst(k, vs) : k \in TweakConsts}
CondInputs ==
  UNION {{RvIR("IR_COND", RegOperand(3, 2), RegOperand(1, vs), o2, FALSE, RvCond(c, u)) :
            u \in BOOLEAN, c \in {COND_EQ, COND_NE, COND_LT, COND_LE, COND_GE, COND_GT},
            o2 \in CondOperands(vs)} : vs \in TweakVSizes}
    \cup
  {RvIR("IR_COND", RegOperand(3, 2), RvVReg(1, vs, TRUE), RvVReg(2, vs, TRUE), FALSE,
        RvCond(c, FALSE)) :
     vs \in TweakVSizes, c \in {COND_LT, COND_LE, COND_GE, COND_GT}}
OtherInputs ==
  {RvIR(k, RegOperand(3, 3), RvConst(BvOfInt(1), 3), RvNull, FALSE, NoCond) :
     k \in {"IR_LOAD", "IR_TJMP", "IR_PUSHARG"}}
    \cup {RvIR("IR_STORE", RvNull, RegOperand(1, 3), RvConst(BvOfInt(2 ^ 12), 3), FALSE,
               NoCond)}
    \cup {RvIR("IR_JMP", RvNull, o[1], o[2], FALSE, RvCond(c, FALSE)) :
            c \in {COND_EQ, COND_NE, COND_LT},
            o \in {<<RvVReg(1, 3, TRUE), RvVReg(2, 3, TRUE)>>,
                   <<RegOperand(1, 3), RvConst(BvOfInt(7), 3)>>,
                   <<RegOperand(1, 3), RvConst({}, 3)>>}}
TweakInputs ==
  BopInputs({"IR_ADD", "IR_SUB", "IR_MUL", "IR_BITAND", "IR_BITOR", "IR_BITXOR",
             "IR_LSHIFT"})
    \cup FloatInputs \cup CondInputs \cup OtherInputs
\* The instruction that follows the one under study in its block.
Trailer == RvIR("IR_BITAND", RegOperand(3, 3), RegOperand(3, 3), RvConst(BvOfInt(2 ^ 11), 3),
                FALSE, NoCond)

InitTweak ==
  /\ env \in TweakInputs
  /\ expr = <<env, Trailer>>
  /\ phase = "lowered"
  /\ built = <<>>
  /\ value = <<>>
  /\ cg = CgInit
  /\ ret = NoReg
  /\ pc = Idle
  /\ vregs = Idle
  /\ flags = NoFlags
  /\ executed = <<>>

TweakBlock ==
  /\ phase = "lowered"
  /\ built' = tweak_irs(expr, FirstFresh)
  /\ phase' = "tweaked"
  /\ UNCHANGED <<expr, env, value, cg, ret, pc, vregs, flags, executed>>

\* emit_bb_irs: value[k] is the code of instruction k of the block.
EmitBlock ==
  /\ phase = "tweaked"
  /\ value' = [k \in 1 .. Len(built) |-> EmitOne(built[k])]
  /\ phase' = "emitted"
  /\ UNCHANGED <<expr, env, built, cg, ret, pc, vregs, flags, executed>>

NextTweak == TweakBlock \/ EmitBlock
SpecTweak == InitTweak /\ [][NextTweak]_vars

ImmKinds == {"IR_ADD", "IR_SUB", "IR_BITAND", "IR_BITOR", "IR_BITXOR", "IR_COND"}
ImmediatesFit(kinds) ==
  \A k \in 1 .. Len(built) :
    built[k].kind \in kinds =>
      \A i \in 1 .. Len(value[k]) :
        value[k][i].op \in ImmOps => is_im12(value[k][i].imm)
\* The number of the tweaked instruction that stands for input instruction 1.
StudiedPos == Len(built) - 2
MovBefore(c) ==
  \E k \in 1 .. (StudiedPos - 1) :
    /\ built[k].kind = "IR_MOV" /\ built[k].opr1 = c
    /\ built[k].dst.virt >= FirstFresh
    /\ built[k].dst \in {built[StudiedPos].opr1, built[StudiedPos].opr2}
\* The immediate the emitter makes of constant c of an instruction.
ImmediateOf(ir, c) == IF ir.kind = "IR_SUB" THEN BvNeg(c.fixnum) ELSE c.fixnum
KeptWithin12(c) ==
  \E k \in 1 .. Len(built) :
    \/ /\ built[k].kind \in ImmKinds
       /\ c \in {built[k].opr1, built[k].opr2}
       /\ is_im12(ImmediateOf(built[k], c))
    \/ built[k].kind = "IR_NEG" /\ c.fixnum = {}
ReplacedIfTooWide(ir) ==
  \A c \in {ir.opr1, ir.opr2} : c.const => (MovBefore(c) \/ KeptWithin12(c))

\* C15: after tweak_irs every constant operand left in an ADD, SUB, BITAND,
\* BITOR, BITXOR or COND gives an immediate within [-2048, 2047] in the
\* emitted instruction, and every constant outside it was replaced by a
\* fresh VReg that a MOV right before the instruction defines.
C15_ImmediatesFit ==
  phase = "emitted" =>
    /\ ImmediatesFit(ImmKinds)
    /\ (env.kind \in ImmKinds /\ ~env.dst.flonum /\ ~env.opr1.flonum)
         => ReplacedIfTooWide(env)

\* The bit operations keep only constants of 12 bits.
C15_BitOpsFit ==
  phase = "emitted" =>
    /\ ImmediatesFit({"IR_BITAND", "IR_BITOR", "IR_BITXOR"})
    /\ env.kind \in {"IR_BITAND", "IR_BITOR", "IR_BITXOR"} => ReplacedIfTooWide(env)

\* An ADD of the constant 4095 was tweaked and emitted with the constant
\* as the immediate of addi.
C15_Witness ==
  /\ phase = "emitted"
  /\ env.kind = "IR_ADD" /\ env.opr2 = RvConst(BvOfInt(2 ^ 12 - 1), 3)
  /\ value[1] = <<RvInsn("ADDI", "a3", "a1", BvOfInt(2 ^ 12 - 1))>>


(***************************************************************************)
(* A COND of kind EQ or NE, tweaked, emitted and run on a register file.   *)
(* A register holds a 64-bit word; an operand narrower than 64 bits is     *)
(* held sign-extended, or zero-extended when its type is unsigned.  The    *)
(* floating-point registers are a file of their own: the integer register  *)
(* with the index of a floating-point operand holds an unrelated word.     *)
(***************************************************************************)

CondRegs == {XR(RegOperand(n, 3)) : n \in 1 .. 3} \cup {FR(RegOperand(n, 3)) : n \in 1 .. 2}
OperandWords ==
  {BvOfInt(0), BvOfInt(1), BvOfInt(-1), BvOfInt(2 ^ 7), BvOfInt(2 ^ 11), BvOfInt(2 ^ 17),
   BvShl(BvOfInt(1), 32), BvAdd(BvShl(BvOfInt(1), 32), BvOfInt(1))}
\* The word a register holds for a value of 2^vsize bytes.
Canonical(w, vsize, unsigned) ==
  IF unsigned THEN BvZext(w, 8 * 2 ^ vsize) ELSE BvSext(w, 8 * 2 ^ vsize)
\* Bit patterns of two different floating-point numbers, neither a NaN nor a zero.
FloatWords == {BvShl(BvOfInt(1023), 52), BvShl(BvOfInt(1), 62)}
UnrelatedWords == {BvOfInt(0), BvOfInt(1)}

CondEqCase(c, vsize, unsigned, flonum, flag, isconst) ==
  [ir |-> RvIR("IR_COND", RegOperand(3, 2), RvVReg(1, vsize, flonum),
               IF isconst THEN RvConst({}, vsize) ELSE RvVReg(2, vsize, flonum),
               flag, RvCond(c, unsigned)),
   type_unsigned |-> unsigned]
CondEqCases ==
  {CondEqCase(c, vs, u, FALSE, f, k) :
     c \in {COND_EQ, COND_NE}, vs \in 0 .. 3, u \in BOOLEAN, f \in BOOLEAN, k \in BOOLEAN}
    \cup {CondEqCase(c, vs, FALSE, TRUE, FALSE, FALSE) : c \in {COND_EQ, COND_NE}, vs \in {2, 3}}

\* The case with the value b as its constant second operand.
WithConst(case, b) ==
  IF case.ir.opr2.const
    THEN [case EXCEPT !.ir.opr2 = RvConst(b, case.ir.opr1.vsize)]
    ELSE case
RegFile(case, a, b, x, y) ==
  IF case.ir.opr1.flonum
    THEN [r \in CondRegs |->
            CASE r = FR(case.ir.opr1) -> a [] r = FR(case.ir.opr2) -> b
              [] r = XR(case.ir.opr1) -> x [] r = XR(case.ir.opr2) -> y
              [] OTHER -> BvOfInt(0)]
    ELSE [r \in CondRegs |->
            CASE r = XR(case.ir.opr1) -> a
              [] r = XR(RegOperand(2, 3)) -> IF case.ir.opr2.const THEN y ELSE b
              [] OTHER -> BvOfInt(0)]

InitCondEq ==
  /\ \E case \in CondEqCases :
       \E wa \in (IF case.ir.opr1.flonum THEN FloatWords ELSE OperandWords),
          wb \in (IF case.ir.opr1.flonum THEN FloatWords ELSE OperandWords),
          x \in UnrelatedWords, y \in UnrelatedWords :
         LET a == IF case.ir.opr1.flonum THEN wa
                  ELSE Canonical(wa, case.ir.opr1.vsize, case.type_unsigned)
             b == IF case.ir.opr1.flonum THEN wb
                  ELSE Canonical(wb, case.ir.opr1.vsize, case.type_unsigned)
         IN  /\ (case.ir.opr1.flonum \/ x = BvOfInt(0))
             /\ env = WithConst(case, b).ir
             /\ vregs = RegFile(case, a, b, x, y)
             /\ flags = [a |-> a, b |-> b, bits |-> 8 * 2 ^ case.ir.opr1.vsize]
  /\ expr = <<env>>
  /\ phase = "lowered"
  /\ built = <<>>
  /\ value = <<>>
  /\ cg = CgInit
  /\ ret = NoReg
  /\ pc = Idle
  /\ executed = <<>>

TweakCondEq ==
  /\ phase = "lowered"
  /\ built' = tweak_irs(expr, FirstFresh)
  /\ phase' = "tweaked"
  /\ UNCHANGED <<expr, env, value, cg, ret, pc, vregs, flags, executed>>

RECURSIVE EmitAll(_)
EmitAll(irs) == IF irs = <<>> THEN <<>> ELSE EmitOne(Head(irs)) \o EmitAll(Tail(irs))

EmitCondEq ==
  /\ phase = "tweaked"
  /\ value' = EmitAll(built)
  /\ pc' = 1
  /\ phase' = "emitted"
  /\ UNCHANGED <<expr, env, built, cg, ret, vregs, flags, executed>>

BoolWord(p) == IF p THEN BvOfInt(1) ELSE BvOfInt(0)
\* The word an instruction leaves in its rd.
RvResult(insn, regs) ==
  CASE insn.op = "ADDI" -> BvAdd(regs[insn.rs], insn.imm)
    [] insn.op = "ADDIW" -> BvSext(BvAdd(regs[insn.rs], insn.imm), 32)
    [] insn.op = "SUB" -> BvSub(regs[insn.rs], regs[insn.imm])
    [] insn.op = "SUBW" -> BvSext(BvSub(regs[insn.rs], regs[insn.imm]), 32)
    [] insn.op = "SEQZ" -> BoolWord(regs[insn.rs] = BvOfInt(0))
    [] insn.op = "SNEZ" -> BoolWord(regs[insn.rs] /= BvOfInt(0))
    [] insn.op \in {"FEQ_S", "FEQ_D"} -> BoolWord(regs[insn.rs] = regs[insn.imm])
    [] insn.op = "LI" -> insn.imm
    [] insn.op = "MV" -> regs[insn.rs]
    [] insn.op = "NEG" -> BvNeg(regs[insn.rs])
    [] insn.op = "SLT" -> BoolWord(BvSlt(regs[insn.rs], regs[insn.imm]))
    [] insn.op = "SLTU" -> BoolWord(BvUlt(regs[insn.rs], regs[insn.imm]))
    [] insn.op = "SLTI" -> BoolWord(BvSlt(regs[insn.rs], insn.imm))
    [] insn.op = "SLTIU" -> BoolWord(BvUlt(regs[insn.rs], insn.imm))
    [] insn.op = "SLLI" -> BvShl(regs[insn.rs], insn.imm)
    [] insn.op = "SRLI" -> BvLshr(regs[insn.rs], insn.imm)
    [] insn.op = "SRAI" -> BvAshr(regs[insn.rs], insn.imm)
    [] insn.op = "SLLIW" -> BvSext(BvShl(regs[insn.rs], insn.imm), 32)
    [] insn.op = "SEXTW" -> BvSext(regs[insn.rs], 32)
\* An immediate the instruction cannot encode: the assembler rejects the line.
Unencodable(insn) == insn.op \in ImmOps /\ ~is_im12(insn.imm)

StepCondEq ==
  /\ phase = "emitted"
  /\ pc \in 1 .. Len(value)
  /\ ~Unencodable(value[pc])
  /\ vregs' = [vregs EXCEPT ![value[pc].rd] = RvResult(value[pc], vregs)]
  /\ pc' = pc + 1
  /\ phase' = IF pc = Len(value) THEN "run" ELSE phase
  /\ UNCHANGED <<expr, env, built, value, cg, ret, flags, executed>>

RejectCondEq ==
  /\ phase = "emitted"
  /\ pc \in 1 .. Len(value)
  /\ Unencodable(value[pc])
  /\ phase' = "rejected"
  /\ UNCHANGED <<expr, env, built, value, cg, ret, pc, vregs, flags, executed>>

NextCondEq == TweakCondEq \/ EmitCondEq \/ StepCondEq \/ RejectCondEq
SpecCondEq == InitCondEq /\ [][NextCondEq]_vars

Rewritten == ~(env.opr2.const /\ env.opr2.fixnum = {})
ComparisonHolds == IF env.cond.kind = COND_EQ THEN flags.a = flags.b ELSE flags.a /= flags.b
CondEqPair ==
  /\ Len(built) = 2
  /\ built[1] = RvIR("IR_SUB", env.dst, env.opr1, env.opr2, env.unsigned, NoCond)
  /\ built[2] = [env EXCEPT !.opr1 = env.dst, !.opr2 = RvConst({}, env.dst.vsize)]

\* C16: a COND EQ/NE whose second operand is not the constant 0 becomes
\* SUB dst, opr1, opr2 then COND dst ==/!= 0, and the emitted pair leaves 1
\* in dst exactly when opr1 ==/!= opr2 holds at the operands' width and
\* register class, 0 otherwise: for 8-, 16-, 32- and 64-bit integers, for a
\* constant of any magnitude and for floating-point operands.
C16_CondEqNe ==
  Rewritten =>
    /\ phase /= "rejected"
    /\ phase \in {"tweaked", "emitted", "run"} => CondEqPair
    /\ phase = "run" => vregs[XR(env.dst)] = BoolWord(ComparisonHolds)

\* The pair is right for integer operands of at most 32 bits, and for
\* 64-bit ones when the COND carries the unsigned flag, given a register
\* or a constant whose negation fits 12 bits as second operand.
C16_NarrowIntegers ==
  (/\ Rewritten
   /\ ~env.opr1.flonum
   /\ env.opr1.vsize <= 2 \/ env.unsigned
   /\ env.opr2.const => is_im12(BvNeg(env.opr2.fixnum)))
    => /\ phase /= "rejected"
       /\ phase \in {"tweaked", "emitted", "run"} => CondEqPair
       /\ phase = "run" => vregs[XR(env.dst)] = BoolWord(ComparisonHolds)

\* 64-bit operands 2^32 and 0 compared for equality: the emitted subw
\* leaves 0 and seqz reports them equal.
C16_Witness ==
  /\ phase = "run"
  /\ env.cond.kind = COND_EQ /\ env.opr1.vsize = 3 /\ ~env.opr2.const
  /\ flags.a = BvShl(BvOfInt(1), 32) /\ flags.b = BvOfInt(0)
  /\ value = <<RvInsn("SUBW", "a3", "a1", "a2"), RvInsn("SEQZ", "a3", "a3", "")>>
  /\ vregs["a3"] = BvOfInt(1)


(***************************************************************************)
(* Global data: types with their layout, initializer trees, and the        *)
(* directives emit_varinfo writes for a global variable (AArch64).         *)
(***************************************************************************)

FxSize(kind) ==
  CASE kind = "FX_CHAR" -> 1 [] kind = "FX_SHORT" -> 2 [] kind = "FX_INT" -> 4
    [] kind = "FX_ENUM" -> 4 [] kind = "FX_LONG" -> 8 [] kind = "FX_LLONG" -> 8
FixnumKindType(kind) ==
  [kind |-> "TY_FIXNUM", fixnum |-> kind, size |-> FxSize(kind), align |-> FxSize(kind)]
FlonumType(kind) ==
  [kind |-> "TY_FLONUM", flonum |-> kind,
   size |-> IF kind = FL_FLOAT THEN 4 ELSE 8, align |-> IF kind = FL_FLOAT THEN 4 ELSE 8]
DataPtrType == [kind |-> "TY_PTR", size |-> POINTER_SIZE, align |-> POINTER_SIZE]
ArrayType(elem, length) ==
  [kind |-> "TY_ARRAY", ptrof |-> elem, length |-> length,
   size |-> length * type_size(elem), align |-> align_size(elem)]

\* A member as declared: width -1 for a member that is no bitfield.
DeclMember(type, width) == [type |-> type, width |-> width]
MaxOf(S) == CHOOSE m \in S : \A x \in S : x <= m

\* Layout of the members of a struct or union: offset of each member and,
\* for a bitfield, its position in its storage unit.  r.cur is the size so
\* far, r.bit the bits used of the open unit (0 when none is open).
LayoutMember(r, decl, is_union) ==
  LET sz == type_size(decl.type)
      al == align_size(decl.type)
      member(offset, position) ==
        [type |-> decl.type, offset |-> offset,
         bitfield |-> [width |-> decl.width, position |-> position,
                       base_kind |-> IF decl.width >= 0 THEN decl.type.fixnum ELSE "none"]]
      joins == /\ decl.width > 0 /\ r.bit > 0 /\ r.base = sz
               /\ r.bit + decl.width <= sz * TARGET_CHAR_BIT
  IN  IF is_union
        THEN [members |-> Append(r.members, member(0, 0)),
              cur |-> MaxOf({r.cur, sz}), bit |-> 0, base |-> 0, unit |-> 0]
      ELSE IF decl.width = 0
        THEN [members |-> Append(r.members, member(r.cur, 0)),
              cur |-> r.cur, bit |-> 0, base |-> 0, unit |-> 0]
      ELSE IF joins
        THEN [members |-> Append(r.members, member(r.unit, r.bit)),
              cur |-> r.cur, bit |-> r.bit + decl.width, base |-> r.base, unit |-> r.unit]
      ELSE [members |-> Append(r.members, member(ALIGN(r.cur, al), 0)),
            cur |-> ALIGN(r.cur, al) + sz,
            bit |-> IF decl.width > 0 THEN decl.width ELSE 0,
            base |-> sz, unit |-> ALIGN(r.cur, al)]
RECURSIVE LayoutFrom(_, _, _, _)
LayoutFrom(decls, i, is_union, r) ==
  IF i > Len(decls) THEN r
  ELSE LayoutFrom(decls, i + 1, is_union, LayoutMember(r, decls[i], is_union))
DataStructType(decls, is_union) ==
  LET r == LayoutFrom(decls, 1, is_union,
                      [members |-> <<>>, cur |-> 0, bit |-> 0, base |-> 0, unit |-> 0])
      al == MaxOf({1} \cup {align_size(decls[i].type) : i \in DOMAIN decls})
  IN  [kind |-> "TY_STRUCT", size |-> ALIGN(r.cur, al), align |-> al,
       info |-> [members |-> r.members, member_count |-> Len(decls), is_union |-> is_union]]

\* Initializers.  A designated or short initializer arrives flattened: a
\* struct's IK_MULTI has one entry per member, an array's one entry per
\* element up to the last one given, with NoInit (NULL) for what is absent.
NoInit == [kind |-> "NULL"]
Single(fixnum) ==
  [kind |-> "IK_SINGLE", single |-> [kind |-> "EX_FIXNUM", fixnum |-> fixnum, buf |-> <<>>]]
StrInit(bytes) ==
  [kind |-> "IK_SINGLE", single |-> [kind |-> "EX_STR", fixnum |-> 0, buf |-> bytes]]
Multi(inits) == [kind |-> "IK_MULTI", multi |-> inits]

\* (v & ((1 << width) - 1)) << position
PlaceBits(v, width, position) == (v % (2 ^ width)) * (2 ^ position)
\* calc_bitfield_initial_value: the unit of the bitfields from member i on
\* that share a storage unit, and the index of the last of them.
RECURSIVE BitfieldUnit(_, _, _, _, _)
BitfieldUnit(sinfo, init, i, top, x) ==
  IF \/ i > sinfo.member_count
     \/ sinfo.members[i].bitfield.width <= 0
     \/ (~top /\ sinfo.members[i].bitfield.position = 0)
    THEN [x |-> x, i |-> i - 1]
  ELSE IF init.kind = "NULL" \/ init.multi[i].kind = "NULL"
    THEN BitfieldUnit(sinfo, init, i + 1, FALSE, x)
  ELSE BitfieldUnit(sinfo, init, i + 1, FALSE,
                    x + PlaceBits(init.multi[i].single.fixnum, sinfo.members[i].bitfield.width,
                                  sinfo.members[i].bitfield.position))
calc_bitfield_initial_value(sinfo, init, i) == BitfieldUnit(sinfo, init, i, TRUE, 0)


\* A line of the assembly output.  `member' is the number of the member of
\* the outermost struct for which the line was written (0: none).
DataLine(op, arg) == [op |-> op, arg |-> arg, member |-> 0]
EMIT_ALIGN(align) == IF align > 1 THEN <<DataLine("EMIT_ALIGN", align)>> ELSE <<>>
EmitFixnum(kind, output) ==
  <<DataLine(CASE kind = "FX_CHAR" -> "_BYTE" [] kind = "FX_SHORT" -> "_WORD"
                [] kind \in {"FX_LONG", "FX_LLONG"} -> "_QUAD"
                [] kind \in {"FX_INT", "FX_ENUM"} -> "_LONG", output)>>
ForMember(out, i) == [k \in DOMAIN out |-> [out[k] EXCEPT !.member = i]]
RECURSIVE Repeat(_, _)
Repeat(x, n) == IF n <= 0 THEN <<>> ELSE <<x>> \o Repeat(x, n - 1)

construct_initial_value_bitfield(sinfo, init, start, offset) ==
  LET member == sinfo.members[start]
      et == FixnumKindType(member.bitfield.base_kind)
      align == align_size(et)
      aligned == IF offset % align /= 0 THEN ALIGN(offset, align) ELSE offset
      u == calc_bitfield_initial_value(sinfo, init, start)
  IN  IF member.bitfield.width = 0 THEN [i |-> start, offset |-> offset, out |-> <<>>]
      ELSE [i |-> u.i, offset |-> aligned + type_size(et),
            out |-> (IF offset % align /= 0 THEN EMIT_ALIGN(align) ELSE <<>>)
                      \o EmitFixnum(et.fixnum, u.x)]

\* The padding a struct ends with.
StructPadding(d) ==
  CASE d = 1 -> <<DataLine("_BYTE", 0)>>
    [] d = 2 -> <<DataLine("_WORD", 0)>>
    [] d = 4 -> <<DataLine("_LONG", 0)>>
    [] d = 8 -> <<DataLine("_QUAD", 0)>>
    [] OTHER -> Repeat(DataLine("_BYTE", 0), d)

RECURSIVE construct_initial_value(_, _)
RECURSIVE ArrayElems(_, _, _)
RECURSIVE StructMembers(_, _, _, _, _)

\* The elements of an array from element `index' on: those of the
\* initializer, then the padding.
ArrayElems(type, init, index) ==
  IF init.kind = "IK_MULTI" /\ index <= Len(init.multi)
    THEN construct_initial_value(type.ptrof, init.multi[index])
           \o ArrayElems(type, init, index + 1)
  ELSE IF index <= type.length
    THEN construct_initial_value(type.ptrof, NoInit) \o ArrayElems(type, NoInit, index + 1)
  ELSE <<>>

\* The loop over the members of a struct from member i on, and what follows it.
StructMembers(type, init, i, offset, count) ==
  LET sinfo == type.info
  IN  IF i > sinfo.member_count
        THEN LET first == IF sinfo.is_union /\ count <= 0
                            THEN ForMember(construct_initial_value(sinfo.members[1].type,
                                                                   NoInit), 1)
                            ELSE <<>>
                 end == IF sinfo.is_union /\ count <= 0
                          THEN offset + type_size(sinfo.members[1].type) ELSE offset
             IN  first \o (IF type_size(type) /= end
                             THEN StructPadding(type_size(type) - end) ELSE <<>>)
      ELSE IF sinfo.members[i].bitfield.width >= 0
        THEN LET r == construct_initial_value_bitfield(sinfo, init, i, offset)
             IN  ForMember(r.out, i) \o StructMembers(type, init, r.i + 1, r.offset, count + 1)
      ELSE LET member == sinfo.members[i]
               mem_init == IF init.kind = "NULL" THEN NoInit ELSE init.multi[i]
               align == align_size(member.type)
           IN  IF (init.kind = "NULL" /\ sinfo.is_union)
                    \/ (mem_init.kind = "NULL" /\ sinfo.is_union)
                 THEN StructMembers(type, init, i + 1, offset, count)
               ELSE (IF offset % align /= 0 THEN EMIT_ALIGN(align) ELSE <<>>)
                      \o ForMember(construct_initial_value(member.type, mem_init), i)
                      \o StructMembers(type, init, i + 1,
                                       (IF offset % align /= 0 THEN ALIGN(offset, align)
                                        ELSE offset) + type_size(member.type),
                                       count + 1)

construct_initial_value(type, init) ==
  CASE type.kind = "TY_FLONUM" ->
         <<DataLine(IF type.flonum = FL_FLOAT THEN "_LONG" ELSE "_QUAD",
                     IF init.kind = "NULL" THEN 0 ELSE init.single.fixnum)>>
    [] type.kind = "TY_PTR" ->
         <<DataLine("_QUAD", IF init.kind = "NULL" THEN 0 ELSE init.single.fixnum)>>
    [] type.kind = "TY_FIXNUM" ->
         EmitFixnum(type.fixnum, IF init.kind = "NULL" THEN 0 ELSE init.single.fixnum)
    [] type.kind = "TY_ARRAY" ->
         IF init.kind \in {"NULL", "IK_MULTI"} THEN ArrayElems(type, init, 1)
         ELSE LET size == type_size(type)
                  src_size == IF Len(init.single.buf) > size THEN size
                              ELSE Len(init.single.buf)
              IN  <<DataLine("_ASCII",
                              SubSeq(init.single.buf, 1, src_size)
                                \o Repeat(0, size - src_size))>>
    [] type.kind = "TY_STRUCT" -> StructMembers(type, init, 1, 0, 0)

DataVarInfo(name, type, const, static) ==
  [name |-> name, type |-> type, const |-> const, static |-> static]
emit_varinfo_dataonly(varinfo, init) ==
  (IF init.kind /= "NULL"
     THEN <<DataLine("_DATA", "")>> ELSE <<>>)
    \o <<DataLine(IF ~varinfo.static THEN "_GLOBL" ELSE "_LOCAL", varinfo.name)>>
    \o (IF init.kind /= "NULL"
          THEN EMIT_ALIGN(align_size(varinfo.type))
                 \o <<DataLine("EMIT_LABEL", varinfo.name)>>
                 \o construct_initial_value(varinfo.type, init)
        ELSE <<DataLine("_BSS",
                         [label |-> varinfo.name,
                          size |-> IF type_size(varinfo.type) < 1 THEN 1
                                   ELSE type_size(varinfo.type),
                          align |-> align_size(varinfo.type)])>>)

emit_varinfo(varinfo, init) ==
  (IF init.kind /= "NULL"
     THEN <<DataLine(IF varinfo.const THEN "_RODATA" ELSE "_DATA", "")>> ELSE <<>>)
    \o <<DataLine(IF ~varinfo.static THEN "_GLOBL" ELSE "_LOCAL", varinfo.name)>>
    \o (IF init.kind /= "NULL"
          THEN EMIT_ALIGN(align_size(varinfo.type))
                 \o <<DataLine("EMIT_LABEL", varinfo.name)>>
                 \o construct_initial_value(varinfo.type, init)
        ELSE <<DataLine("_BSS",
                         [label |-> varinfo.name,
                          size |-> IF type_size(varinfo.type) < 1 THEN 1
                                   ELSE type_size(varinfo.type),
                          align |-> align_size(varinfo.type)])>>)

\* The assembler: the bytes a data directive adds at location loc.
DataOps == {"_BYTE", "_WORD", "_LONG", "_QUAD", "_ASCII"}
DirectiveBytes(d, loc) ==
  CASE d.op = "_BYTE" -> 1 [] d.op = "_WORD" -> 2 [] d.op = "_LONG" -> 4
    [] d.op = "_QUAD" -> 8 [] d.op = "_ASCII" -> Len(d.arg)
    [] d.op = "EMIT_ALIGN" -> ALIGN(loc, d.arg) - loc
    [] OTHER -> 0
\* The location counter after the first k lines, from location 0.
RECURSIVE LocAfter(_, _)
LocAfter(out, k) ==
  IF k = 0 THEN 0
  ELSE LET loc == LocAfter(out, k - 1) IN loc + DirectiveBytes(out[k], loc)


(***************************************************************************)
(* emit_varinfo and construct_initial_value over a family of global        *)
(* variables.                                                              *)
(***************************************************************************)

MaxMembers == 2
MaxLength == 3
DataChar == FixnumKindType("FX_CHAR")
DataInt == FixnumKindType("FX_INT")
DataScalars ==
  {FixnumKindType(k) : k \in {"FX_CHAR", "FX_SHORT", "FX_INT", "FX_ENUM", "FX_LONG",
                              "FX_LLONG"}}
    \cup {DataPtrType, FlonumType(FL_FLOAT), FlonumType(FL_DOUBLE)}
CharArray == ArrayType(DataChar, MaxLength)
PairStruct == DataStructType(<<DeclMember(DataChar, -1), DeclMember(DataInt, -1)>>, FALSE)
MemberDecls ==
  {DeclMember(t, -1) : t \in {DataChar, DataInt, FixnumKindType("FX_LONG"), CharArray,
                              PairStruct}}
    \cup {DeclMember(DataChar, 3), DeclMember(DataChar, 6), DeclMember(DataInt, 5),
          DeclMember(DataInt, 0)}
DataStructs ==
  {DataStructType(decls, u) :
     decls \in UNION {[1 .. n -> MemberDecls] : n \in 1 .. MaxMembers}, u \in BOOLEAN}
DataArrays ==
  {ArrayType(elem, n) :
     elem \in {DataChar, DataInt, PairStruct, ArrayType(FixnumKindType("FX_SHORT"), 2)},
     n \in 0 .. MaxLength}
DataTypes == DataScalars \cup DataStructs \cup DataArrays

\* An initializer that gives every element and member (a union's first).
RECURSIVE FullInit(_)
FullInit(type) ==
  CASE type.kind = "TY_ARRAY" -> Multi([k \in 1 .. type.length |-> FullInit(type.ptrof)])
    [] type.kind = "TY_STRUCT" ->
         Multi([i \in 1 .. type.info.member_count |->
                  IF type.info.is_union /\ i > 1 THEN NoInit
                  ELSE IF type.info.members[i].bitfield.width = 0 THEN NoInit
                  ELSE FullInit(type.info.members[i].type)])
    [] OTHER -> Single(1)
InitsOf(type) ==
  CASE type.kind = "TY_ARRAY" ->
         {NoInit}
           \cup {Multi(m) : m \in UNION {[1 .. n -> {NoInit, FullInit(type.ptrof)}] :
                                           n \in 0 .. type.length}}
           \cup (IF type.ptrof = DataChar
                   THEN {StrInit([k \in 1 .. n |-> 65]) : n \in 1 .. type.length}
                   ELSE {})
    [] type.kind = "TY_STRUCT" ->
         {NoInit}
           \cup {Multi([i \in DOMAIN f |->
                          IF f[i] THEN FullInit(type.info.members[i].type) ELSE NoInit]) :
                   f \in {g \in [1 .. type.info.member_count -> BOOLEAN] :
                            /\ type.info.is_union
                                 => Cardinality({i \in DOMAIN g : g[i]}) <= 1
                            /\ \A i \in DOMAIN g :
                                 type.info.members[i].bitfield.width = 0 => ~g[i]}}
    [] OTHER -> {NoInit, Single(1)}

DataGlobals ==
  UNION {{[varinfo |-> DataVarInfo("g", type, const, static), init |-> init] :
            init \in InitsOf(type), const \in BOOLEAN, static \in BOOLEAN} :
         type \in DataTypes}

InitVarinfo ==
  /\ env \in DataGlobals
  /\ phase = "declared"
  /\ built = <<>>
  /\ expr = <<>>
  /\ value = <<>>
  /\ cg = CgInit
  /\ ret = NoReg
  /\ pc = Idle
  /\ vregs = Idle
  /\ flags = NoFlags
  /\ executed = <<>>

EmitVarinfo ==
  /\ phase = "declared"
  /\ built' = emit_varinfo(env.varinfo, env.init)
  /\ phase' = "emitted"
  /\ UNCHANGED <<expr, env, value, cg, ret, pc, vregs, flags, executed>>

\* construct_initial_value as it is called for an element or a member: at
\* an aligned location, with an initializer or with NULL.
ConstructInitialValue ==
  /\ phase = "declared"
  /\ ~env.varinfo.const /\ ~env.varinfo.static
  /\ built' = construct_initial_value(env.varinfo.type, env.init)
  /\ phase' = "constructed"
  /\ UNCHANGED <<expr, env, value, cg, ret, pc, vregs, flags, executed>>

NextVarinfo == EmitVarinfo \/ ConstructInitialValue
SpecVarinfo == InitVarinfo /\ [][NextVarinfo]_vars

DataType == env.varinfo.type
\* The value of a struct's member i begins at the member's offset.
MemberAtOffset(i) ==
  \A k \in DOMAIN built :
    (/\ built[k].op \in DataOps /\ built[k].member = i
     /\ \A j \in 1 .. (k - 1) : ~(built[j].op \in DataOps /\ built[j].member = i))
      => LocAfter(built, k - 1) = DataType.info.members[i].offset
ExactLayout ==
  /\ LocAfter(built, Len(built)) = type_size(DataType)
  /\ DataType.kind = "TY_STRUCT" => \A i \in 1 .. DataType.info.member_count : MemberAtOffset(i)
ValueConstructed == phase = "constructed" \/ (phase = "emitted" /\ env.init.kind /= "NULL")
HasBitfield(type) ==
  type.kind = "TY_STRUCT"
    /\ \E i \in 1 .. type.info.member_count : type.info.members[i].bitfield.width >= 0

\* C17: for every type and every initializer, NULL included,
\* construct_initial_value writes data directives and alignment padding of
\* exactly type_size(type) bytes, and the value of each struct member
\* begins at the member's offset.
C17_ExactSize == ValueConstructed => ExactLayout

\* The same, for every type but a union with a bitfield member.
C17_ExceptUnionBitfield ==
  (ValueConstructed /\ ~(HasBitfield(DataType) /\ DataType.info.is_union)) => ExactLayout

\* union { int x : 5; char c; } initialised through c: 5 bytes are written
\* for a union of 4.
C17_Witness ==
  /\ phase = "emitted"
  /\ DataType = DataStructType(<<DeclMember(DataInt, 5), DeclMember(DataChar, -1)>>, TRUE)
  /\ env.init = Multi(<<NoInit, Single(1)>>)
  /\ LocAfter(built, Len(built)) = 5
  /\ type_size(DataType) = 4


SectionOps == {"_RODATA", "_DATA", "_BSS"}
SectionLines == {k \in DOMAIN built : built[k].op \in SectionOps}
InSection(op) == \E k \in SectionLines : SectionLines = {k} /\ built[k].op = op
Initialised == env.init.kind /= "NULL"
NoData == \A k \in DOMAIN built : built[k].op \notin DataOps
Reserves(size) ==
  \E k \in DOMAIN built :
    /\ built[k].op = "_BSS"
    /\ built[k].arg = [label |-> env.varinfo.name, size |-> size,
                       align |-> align_size(DataType)]

\* C18 as stated: every global goes to exactly one section; a
\* constant-qualified one to read-only data, an initialised non-const one
\* to .data, an uninitialised one to BSS, as a .bss reservation of its size
\* and alignment without data directives.
C18_SectionRule ==
  phase = "emitted" =>
    /\ env.varinfo.const => InSection("_RODATA")
    /\ (~env.varinfo.const /\ Initialised) => InSection("_DATA")
    /\ ~Initialised => (InSection("_BSS") /\ Reserves(type_size(DataType)) /\ NoData)

\* C18: every global goes to exactly one section; an initialised
\* constant-qualified one to read-only data, an initialised non-const one
\* to .data, an uninitialised one, constant-qualified or not, to BSS, as a
\* .bss reservation of its size (of 1 byte when its size is 0) and its
\* alignment without data directives.
C18_SectionByInitializer ==
  phase = "emitted" =>
    /\ (env.varinfo.const /\ Initialised) => InSection("_RODATA")
    /\ (~env.varinfo.const /\ Initialised) => InSection("_DATA")
    /\ ~Initialised =>
         /\ InSection("_BSS")
         /\ Reserves(IF type_size(DataType) = 0 THEN 1 ELSE type_size(DataType))
         /\ NoData

\* A constant-qualified global without initializer was emitted: it is a
\* .bss reservation.
C18_Witness ==
  /\ phase = "emitted"
  /\ env.varinfo.const /\ ~Initialised
  /\ DataType = DataInt
  /\ built = <<DataLine("_GLOBL", "g"),
               DataLine("_BSS", [label |-> "g", size |-> 4, align |-> 4])>>


(***************************************************************************)
(* WebAssembly: the data segment of the globals that live in linear        *)
(* memory (wcc.c).                                                         *)
(***************************************************************************)

\* Element `index' of an array given by a designator.
ArrInit(index, elem) == [kind |-> "IK_ARR", index |-> index, elem |-> elem]
ZeroBytes(n) == [k \in 1 .. n |-> 0]
\* buf[i] = v >> (i * CHAR_BIT), little endian
FixnumBytes(v, size) == [k \in 1 .. size |-> (v \div (2 ^ (TARGET_CHAR_BIT * (k - 1)))) % 256]

RECURSIVE wasm_construct_initial_value(_, _)
RECURSIVE WasmArrayElems(_, _, _, _)

\* The loop over init_array from entry i on, `index' elements being
\* written so far, and the padding that follows it.
WasmArrayElems(type, init_array, i, index) ==
  IF i <= Len(init_array)
    THEN IF init_array[i].kind = "IK_ARR"
           THEN LET next == init_array[i].index
                    gap == IF next > index THEN next - index ELSE 0
                IN  Bind(wasm_construct_initial_value(type.ptrof, NoInit),
                         LAMBDA z : IF gap > 0 /\ z /= <<>> THEN ZeroBytes(gap * Len(z))
                                    ELSE <<>>)
                      \o wasm_construct_initial_value(type.ptrof, init_array[i].elem)
                      \o WasmArrayElems(type, init_array, i + 1, next + 1)
         ELSE wasm_construct_initial_value(type.ptrof, init_array[i])
                \o WasmArrayElems(type, init_array, i + 1, index + 1)
  ELSE IF index < type.length
    THEN wasm_construct_initial_value(type.ptrof, NoInit)
           \o WasmArrayElems(type, init_array, i, index + 1)
  ELSE <<>>

wasm_construct_initial_value(type, init) ==
  CASE type.kind = "TY_FIXNUM" ->
         FixnumBytes(IF init.kind = "NULL" THEN 0 ELSE init.single.fixnum, type_size(type))
    [] type.kind = "TY_FLONUM" ->
         FixnumBytes(IF init.kind = "NULL" THEN 0 ELSE init.single.fixnum,
                     IF type.flonum = FL_FLOAT THEN 4 ELSE 8)
    [] type.kind = "TY_ARRAY" ->
         IF init.kind = "NULL" THEN <<>>
         ELSE IF init.kind = "IK_MULTI" THEN WasmArrayElems(type, init.multi, 1, 0)
         ELSE LET src_size == Len(init.single.buf)
                  size == type_size(type)
              IN  IF size > src_size THEN init.single.buf \o ZeroBytes(size - src_size)
                  ELSE init.single.buf

is_prim_type(type) == type.kind \in {"TY_FIXNUM", "TY_FLONUM", "TY_PTR"}

\* One turn of the loop of construct_data_segment, on a global that is
\* not skipped: r.ds is the segment, r.address the end of the last global.
DataSegmentGlobal(r, info) ==
  LET adr == info.address
      filled == IF adr > r.address THEN r.ds \o ZeroBytes(adr - r.address) ELSE r.ds
  IN  [ds |-> filled \o wasm_construct_initial_value(info.varinfo.type, info.init),
       address |-> adr + type_size(info.varinfo.type),
       start |-> Len(filled)]


MaxGlobals == 2
WasmInt == FixnumKindType("FX_INT")
IntPair == ArrayType(WasmInt, 2)
WasmGlobalDecls ==
  {[type |-> WasmInt, init |-> Single(1)]}
    \cup {[type |-> ArrayType(DataChar, 3), init |-> i] :
            i \in {NoInit, StrInit(<<65, 0>>), StrInit(<<65, 66, 0>>)}}
    \cup {[type |-> IntPair, init |-> i] :
            i \in {NoInit, Multi(<<Single(1)>>), Multi(<<Single(1), Single(258)>>),
                   Multi(<<ArrInit(1, Single(258))>>)}}
    \cup {[type |-> ArrayType(IntPair, 2), init |-> i] :
            i \in {Multi(<<Multi(<<Single(1), Single(2)>>), Multi(<<Single(3)>>)>>),
                   Multi(<<Multi(<<Single(1), Single(2)>>)>>),
                   Multi(<<ArrInit(1, Multi(<<Single(1), Single(2)>>))>>)}}

\* Addresses in linear memory: from 0, in the order of the traversal, each
\* aligned for its type; a primitive global has none.
RECURSIVE AssignAddresses(_, _, _)
AssignAddresses(decls, i, cur) ==
  IF i > Len(decls) THEN <<>>
  ELSE LET type == decls[i].type
           adr == IF is_prim_type(type) THEN 0 ELSE ALIGN(cur, align_size(type))
       IN  <<[varinfo |-> [type |-> type], init |-> decls[i].init, address |-> adr]>>
             \o AssignAddresses(decls, i + 1,
                                IF is_prim_type(type) THEN cur ELSE adr + type_size(type))
gvar_info_tables ==
  {AssignAddresses(decls, 1, 0) :
     decls \in UNION {[1 .. n -> WasmGlobalDecls] : n \in 1 .. MaxGlobals}}

InitDataSeg ==
  /\ env \in gvar_info_tables
  /\ pc = 1
  /\ built = <<>>
  /\ value = 0
  /\ executed = <<>>
  /\ phase = "data"
  /\ expr = <<>>
  /\ cg = CgInit
  /\ ret = NoReg
  /\ vregs = Idle
  /\ flags = NoFlags

Skipped(info) == is_prim_type(info.varinfo.type) \/ info.init.kind = "NULL"

SkipGlobal ==
  /\ phase = "data" /\ pc <= Len(env)
  /\ Skipped(env[pc])
  /\ pc' = pc + 1
  /\ UNCHANGED <<expr, env, phase, built, value, cg, ret, vregs, flags, executed>>

\* executed records, for each global appended, where its value starts in
\* the segment and the segment's length after it.
AppendGlobal ==
  /\ phase = "data" /\ pc <= Len(env)
  /\ ~Skipped(env[pc])
  /\ LET r == DataSegmentGlobal([ds |-> built, address |-> value], env[pc])
     IN  /\ built' = r.ds
         /\ value' = r.address
         /\ executed' = Append(executed, [it |-> pc, start |-> r.start, end |-> Len(r.ds)])
  /\ pc' = pc + 1
  /\ UNCHANGED <<expr, env, phase, cg, ret, vregs, flags>>

NextDataSeg == SkipGlobal \/ AppendGlobal
SpecDataSeg == InitDataSeg /\ [][NextDataSeg]_vars

\* The bytes of an object of the type with the initializer: what is not
\* given is zero.
RECURSIVE InitialBytes(_, _)
RECURSIVE ElementInit(_, _, _)
\* The initializer of element `index' (from 0) of an array, NoInit if none;
\* i is the entry of init_array under inspection, at element `at'.
ElementInit(init_array, index, r) ==
  IF r.i > Len(init_array) THEN NoInit
  ELSE LET e == init_array[r.i]
           here == IF e.kind = "IK_ARR" THEN e.index ELSE r.at
           given == IF e.kind = "IK_ARR" THEN e.elem ELSE e
       IN  IF here = index THEN given
           ELSE ElementInit(init_array, index, [i |-> r.i + 1, at |-> here + 1])
InitialBytes(type, init) ==
  IF type.kind /= "TY_ARRAY"
    THEN FixnumBytes(IF init.kind = "NULL" THEN 0 ELSE init.single.fixnum, type_size(type))
  ELSE IF init.kind = "IK_SINGLE"
    THEN [k \in 1 .. type_size(type) |->
            IF k <= Len(init.single.buf) THEN init.single.buf[k] ELSE 0]
  ELSE LET elem(k) ==
             InitialBytes(type.ptrof,
                          IF init.kind = "NULL" THEN NoInit
                          ELSE ElementInit(init.multi, k, [i |-> 1, at |-> 0]))
           esz == type_size(type.ptrof)
       IN  [b \in 1 .. type_size(type) |-> elem((b - 1) \div esz)[((b - 1) % esz) + 1]]

Appended(rec) ==
  LET info == env[rec.it]
      size == type_size(info.varinfo.type)
  IN  /\ rec.start = info.address
      /\ rec.end = info.address + size
      /\ Len(built) >= rec.end
           => SubSeq(built, rec.start + 1, rec.end) = InitialBytes(info.varinfo.type, info.init)
GapsZero ==
  \A b \in 1 .. Len(built) :
    (\A k \in DOMAIN executed : ~(executed[k].start < b /\ b <= executed[k].end))
      => built[b] = 0

\* C19: in the data segment the value of every initialised non-primitive
\* global starts at the global's address and takes exactly type_size
\* bytes, arrays with missing trailing or nested elements included: after
\* each global the segment's length is the address plus type_size, and the
\* gaps between globals are zero.
C19_DataSegment ==
  /\ \A k \in DOMAIN executed : Appended(executed[k])
  /\ GapsZero

\* A nested array element without initializer.
MissingNested(info) ==
  /\ info.varinfo.type.kind = "TY_ARRAY"
  /\ info.varinfo.type.ptrof.kind = "TY_ARRAY"
  /\ info.init.kind = "IK_MULTI"
  /\ \/ Len(info.init.multi) < info.varinfo.type.length
     \/ \E i \in DOMAIN info.init.multi : info.init.multi[i].kind = "IK_ARR"
\* The same, as long as no global before has a nested array element
\* without initializer.
C19_FlatOrComplete ==
  (\A k \in DOMAIN executed : ~MissingNested(env[executed[k].it]))
    => C19_DataSegment

\* int g[2][2] = {{1, 2}} at address 0: 8 bytes are appended for 16.
C19_Witness ==
  /\ env[1].varinfo.type = ArrayType(IntPair, 2)
  /\ env[1].init = Multi(<<Multi(<<Single(1), Single(2)>>)>>)
  /\ executed /= <<>> /\ executed[1] = [it |-> 1, start |-> 0, end |-> 8]
  /\ built = <<1, 0, 0, 0, 2, 0, 0, 0>>


(***************************************************************************)
(* WebAssembly: emit_wasm, the sections of the module and their sizes.     *)
(***************************************************************************)

SEC_TYPE == 1
SEC_IMPORT == 2
SEC_FUNC == 3
SEC_GLOBAL == 6
SEC_EXPORT == 7
SEC_CODE == 10
SEC_DATA == 11
WT_FUNC == 96
OP_I32_CONST == 65
OP_END == 11
IMPORT_FUNC == 0
IMPORT_MEMORY == 2
EXPORT_GLOBAL == 3
IMPORT_MODULE_NAME == <<99>>
IMPORT_MODULE_ENV_NAME == <<101, 110, 118>>
MemoryName == <<109, 101, 109, 111, 114, 121>>
DATA_END_ADDRESS_NAME == <<95, 95, 100, 97, 116, 97, 95, 101, 110, 100>>
SP_NAME == <<95, 95, 115, 112>>

\* Unsigned LEB128: seven bits a byte, low bits first, bit 7 set on every
\* byte but the last.
RECURSIVE Uleb128(_)
Uleb128(v) == IF v < 128 THEN <<v>> ELSE <<128 + (v % 128)>> \o Uleb128(v \div 128)
\* emit_uleb128(ds, pos, value): the encoding inserted at position pos.
emit_uleb128(ds, pos, v) == SubSeq(ds, 1, pos) \o Uleb128(v) \o SubSeq(ds, pos + 1, Len(ds))
data_push(ds, b) == Append(ds, b)
data_append(ds, bytes) == ds \o bytes
data_insert(ds, pos, bytes) == SubSeq(ds, 1, pos) \o bytes \o SubSeq(ds, pos + 1, Len(ds))

\* The types of the functions in use, each once, and the bytes of their
\* entries; r.index[it] is the type_index given to function it.
RECURSIVE TypeIndexOf(_, _, _)
TypeIndexOf(types, type, k) ==
  IF k > Len(types) \/ types[k] = type THEN k - 1 ELSE TypeIndexOf(types, type, k + 1)
TypeEntry(type) ==
  <<WT_FUNC>> \o Uleb128(Len(type.params)) \o type.params
    \o (IF type.ret = <<>> THEN <<0>> ELSE <<1>> \o type.ret)
RECURSIVE TypesFrom(_, _, _)
TypesFrom(table, it, r) ==
  IF it > Len(table) THEN r
  ELSE IF table[it].flag = 0 THEN TypesFrom(table, it + 1, r)
  ELSE LET type_index == TypeIndexOf(r.types, table[it].type, 1)
           fresh == type_index >= Len(r.types)
       IN  TypesFrom(table, it + 1,
                     [types |-> IF fresh THEN Append(r.types, table[it].type) ELSE r.types,
                      sec |-> IF fresh THEN r.sec \o TypeEntry(table[it].type) ELSE r.sec,
                      index |-> [r.index EXCEPT ![it] = type_index]])
WasmTypes(table) ==
  TypesFrom(table, 1, [types |-> <<>>, sec |-> <<>>, index |-> [it \in DOMAIN table |-> 0]])
\* The count, then the size, each inserted in front.
WithCountAndSize_sizefirst(sec, count) == emit_uleb128(emit_uleb128(sec, 0, count), 0, Len(sec))
WithCountAndSize(sec, count) ==
  Bind(emit_uleb128(sec, 0, count), LAMBDA s : emit_uleb128(s, 0, Len(s)))
types_section(table) ==
  Bind(WasmTypes(table), LAMBDA r : WithCountAndSize(r.sec, Len(r.types)))

ImportEntry(module_name, name, kind) ==
  Uleb128(Len(module_name)) \o module_name \o Uleb128(Len(name)) \o name \o Uleb128(kind)
Imported(info) == info.flag /= 0 /\ ~info.defined
Defined(info) == info.defined /\ info.flag /= 0
RECURSIVE ConcatAll(_)
ConcatAll(ss) ==
  IF Len(ss) = 0 THEN <<>> ELSE ConcatAll(SubSeq(ss, 1, Len(ss) - 1)) \o ss[Len(ss)]
\* The concatenation of Entry(it) over the entries of the table that pass.
ConcatOver(n, Pass(_), Entry(_)) ==
  ConcatAll([it \in 1 .. n |-> IF Pass(it) THEN Entry(it) ELSE <<>>])
CountOver(n, Pass(_)) == Cardinality({it \in 1 .. n : Pass(it)})
imports_section(table) ==
  LET index == WasmTypes(table).index
      funcs == ConcatOver(Len(table), LAMBDA it : Imported(table[it]),
                          LAMBDA it : ImportEntry(IMPORT_MODULE_NAME, table[it].name,
                                                  IMPORT_FUNC) \o Uleb128(index[it]))
      memory == ImportEntry(IMPORT_MODULE_ENV_NAME, MemoryName, IMPORT_MEMORY)
                  \o Uleb128(0) \o Uleb128(1)
  IN  WithCountAndSize(funcs \o memory,
                       CountOver(Len(table), LAMBDA it : Imported(table[it])) + 1)
functions_section(table) ==
  LET index == WasmTypes(table).index
  IN  WithCountAndSize(ConcatOver(Len(table), LAMBDA it : Defined(table[it]),
                                  LAMBDA it : Uleb128(index[it])),
                       CountOver(Len(table), LAMBDA it : Defined(table[it])))
\* construct_primitive_global for an i32 global of a small value.
construct_primitive_global(info) ==
  <<OP_I32_CONST, IF info.init.kind = "NULL" THEN 0 ELSE info.init.single.fixnum>>
globals_count(gvars) == CountOver(Len(gvars), LAMBDA it : is_prim_type(gvars[it].varinfo.type))
globals_section(gvars) ==
  LET body == ConcatOver(Len(gvars), LAMBDA it : is_prim_type(gvars[it].varinfo.type),
                         LAMBDA it : <<127, 1>> \o construct_primitive_global(gvars[it])
                                       \o <<OP_END>>)
  IN  IF globals_count(gvars) > 0 THEN WithCountAndSize(body, globals_count(gvars)) ELSE body
ExportEntry(name, kind, index) ==
  Uleb128(Len(name)) \o name \o Uleb128(kind) \o Uleb128(index)
exports_section(table, exports, data_end_address) ==
  LET funcs == ConcatOver(Len(exports), LAMBDA i : TRUE,
                          LAMBDA i : ExportEntry(table[exports[i]].name, IMPORT_FUNC,
                                                 exports[i] - 1))
      data_end == IF data_end_address > 0
                    THEN ExportEntry(DATA_END_ADDRESS_NAME, EXPORT_GLOBAL, 1) ELSE <<>>
      sp == ExportEntry(SP_NAME, EXPORT_GLOBAL, 0)
  IN  WithCountAndSize(funcs \o data_end \o sp,
                       Len(exports) + (IF data_end_address > 0 THEN 1 ELSE 0) + 1)

\* The code section: id, size and count, then the function bodies.
CodeSection(table) ==
  LET codesec == <<SEC_CODE>>
      size_pos == Len(codesec)
      total_code_size == Len(ConcatOver(Len(table), LAMBDA it : Defined(table[it]),
                                        LAMBDA it : table[it].code))
      counted == emit_uleb128(codesec, Len(codesec),
                              CountOver(Len(table), LAMBDA it : Defined(table[it])))
  IN  emit_uleb128(counted, size_pos, (Len(counted) - size_pos) + total_code_size)
        \o ConcatOver(Len(table), LAMBDA it : Defined(table[it]), LAMBDA it : table[it].code)

RECURSIVE DataSegmentFrom(_, _, _)
DataSegmentFrom(gvars, it, r) ==
  IF it > Len(gvars) THEN r.ds
  ELSE DataSegmentFrom(gvars, it + 1,
                       IF Skipped(gvars[it]) THEN r ELSE DataSegmentGlobal(r, gvars[it]))
construct_data_segment(gvars) ==
  DataSegmentFrom(gvars, 1, [ds |-> <<>>, address |-> 0, start |-> 0])
seg_info == <<1, 0, OP_I32_CONST, 0, OP_END>>
DataSection(gvars) ==
  LET datasec == construct_data_segment(gvars)
      datasize == Len(datasec)
      seg == emit_uleb128(data_insert(datasec, 0, seg_info), Len(seg_info), datasize)
      section_size == Len(seg)
  IN  IF Len(datasec) > 0
        THEN emit_uleb128(data_insert(seg, 0, <<SEC_DATA>>), 1, section_size)
        ELSE <<>>


MaxFuncs == 2
LongLen == 130
FuncSig(params, result) == [params |-> params, ret |-> result]
FuncInfo(flag, defined, type, name, code) ==
  [flag |-> flag, defined |-> defined, type |-> type, name |-> name, code |-> code]
FuncInfos ==
  {FuncInfo(0, TRUE, FuncSig(<<>>, <<>>), <<102>>, ZeroBytes(3)),
   FuncInfo(1, FALSE, FuncSig(<<>>, <<>>), <<103>>, <<>>),
   FuncInfo(1, FALSE, FuncSig(<<127>>, <<127>>), <<103, 104>>, <<>>),
   FuncInfo(1, TRUE, FuncSig(<<>>, <<>>), <<102>>, ZeroBytes(3)),
   FuncInfo(1, TRUE, FuncSig(<<127>>, <<127>>), <<102, 103>>, ZeroBytes(LongLen)),
   FuncInfo(1, TRUE, FuncSig(<<127, 127>>, <<>>), ZeroBytes(LongLen), ZeroBytes(LongLen))}
func_info_tables == UNION {[1 .. n -> FuncInfos] : n \in 0 .. MaxFuncs}
WasmGvarTables ==
  {AssignAddresses(decls, 1, 0) :
     decls \in {<<>>,
                <<[type |-> WasmInt, init |-> Single(1)]>>,
                <<[type |-> WasmInt, init |-> NoInit], [type |-> WasmInt, init |-> Single(2)]>>,
                <<[type |-> IntPair, init |-> Multi(<<Single(1), Single(258)>>)]>>,
                <<[type |-> WasmInt, init |-> Single(1)],
                  [type |-> ArrayType(DataChar, 3), init |-> StrInit(<<65, 66, 0>>)]>>,
                <<[type |-> WasmInt, init |-> Single(1)],
                  [type |-> ArrayType(DataChar, LongLen), init |-> StrInit(<<65, 0>>)]>>}}
\* The functions named for export: defined ones, by their place in the table.
RECURSIVE DefinedFrom(_, _)
DefinedFrom(table, it) ==
  IF it > Len(table) THEN <<>>
  ELSE (IF Defined(table[it]) THEN <<it>> ELSE <<>>) \o DefinedFrom(table, it + 1)

NoSections ==
  [types |-> <<>>, imports |-> <<>>, functions |-> <<>>, globals |-> <<>>, exports |-> <<>>]
InitWasm ==
  /\ \E table \in func_info_tables, gvars \in WasmGvarTables, all \in BOOLEAN,
        data_end_address \in {0, 1} :
       env = [table |-> table, gvars |-> gvars,
              exports |-> IF all THEN DefinedFrom(table, 1) ELSE <<>>,
              data_end_address |-> data_end_address]
  /\ pc = 1
  /\ value = NoSections
  /\ built = <<>>
  /\ phase = "emit_wasm"
  /\ expr = <<>>
  /\ cg = CgInit
  /\ ret = NoReg
  /\ vregs = Idle
  /\ flags = NoFlags
  /\ executed = <<>>

WasmAt(at) == phase = "emit_wasm" /\ pc = at
WasmNext == pc' = pc + 1 /\ UNCHANGED <<expr, env, phase, cg, ret, vregs, flags, executed>>
BuildTypes ==
  /\ WasmAt(1)
  /\ value' = [value EXCEPT !.types = types_section(env.table)]
  /\ built' = built
  /\ WasmNext
BuildImports ==
  /\ WasmAt(2)
  /\ value' = [value EXCEPT !.imports = imports_section(env.table)]
  /\ built' = built
  /\ WasmNext
BuildFunctions ==
  /\ WasmAt(3)
  /\ value' = [value EXCEPT !.functions = functions_section(env.table)]
  /\ built' = built
  /\ WasmNext
BuildGlobals ==
  /\ WasmAt(4)
  /\ value' = [value EXCEPT !.globals = globals_section(env.gvars)]
  /\ built' = built
  /\ WasmNext
BuildExports ==
  /\ WasmAt(5)
  /\ value' = [value EXCEPT !.exports = exports_section(env.table, env.exports,
                                                        env.data_end_address)]
  /\ built' = built
  /\ WasmNext
\* built holds what is written to the file, one entry a section.
CombineSections ==
  /\ WasmAt(6)
  /\ built' = <<data_push(<<>>, SEC_TYPE) \o value.types,
                data_push(<<>>, SEC_IMPORT) \o value.imports,
                data_push(<<>>, SEC_FUNC) \o value.functions>>
                \o (IF globals_count(env.gvars) > 0
                      THEN <<data_push(<<>>, SEC_GLOBAL) \o value.globals>> ELSE <<>>)
                \o <<data_push(<<>>, SEC_EXPORT) \o value.exports>>
  /\ value' = value
  /\ WasmNext
WriteCode ==
  /\ WasmAt(7)
  /\ built' = Append(built, CodeSection(env.table))
  /\ value' = value
  /\ WasmNext
WriteData ==
  /\ WasmAt(8)
  /\ built' = IF DataSection(env.gvars) /= <<>> THEN Append(built, DataSection(env.gvars))
              ELSE built
  /\ value' = value
  /\ WasmNext

NextWasm ==
  \/ BuildTypes \/ BuildImports \/ BuildFunctions \/ BuildGlobals \/ BuildExports
  \/ CombineSections \/ WriteCode \/ WriteData
SpecWasm == InitWasm /\ [][NextWasm]_vars

\* The ULEB128 number that starts at pos, and the position after it.
RECURSIVE DecodeUleb128(_, _)
DecodeUleb128(s, pos) ==
  IF s[pos] < 128 THEN [v |-> s[pos], next |-> pos + 1]
  ELSE LET rest == DecodeUleb128(s, pos + 1)
       IN  [v |-> (s[pos] - 128) + 128 * rest.v, next |-> rest.next]
\* The bytes of a section after its size field are as many as the field says.
SizeExact(s) ==
  LET size == DecodeUleb128(s, 2) IN Len(s) - (size.next - 1) = size.v
\* The ids of the sections found by reading a file from pos on, each
\* section skipped by its size field.
RECURSIVE SectionIds(_, _)
SectionIds(file, pos) ==
  IF pos > Len(file) THEN <<>>
  ELSE LET size == DecodeUleb128(file, pos + 1)
       IN  <<file[pos]>> \o SectionIds(file, size.next + size.v)
WrittenIds == [k \in DOMAIN built |-> built[k][1]]
DefinedCode ==
  ConcatOver(Len(env.table), LAMBDA it : Defined(env.table[it]),
             LAMBDA it : env.table[it].code)
DefinedCount == CountOver(Len(env.table), LAMBDA it : Defined(env.table[it]))
CodeSizeExact(s) ==
  DecodeUleb128(s, 2).v = Len(Uleb128(DefinedCount)) + Len(DefinedCode)
DataSizeExact(s) ==
  LET datasize == Len(construct_data_segment(env.gvars))
  IN  DecodeUleb128(s, 2).v = Len(seg_info) + Len(Uleb128(datasize)) + datasize
IsOrdered(ids) == \A i, j \in DOMAIN ids : i < j => ids[i] < ids[j]

\* C20: for every section emit_wasm writes (Type, Import, Function,
\* Global, Export, Code, Data, in that order) the ULEB128 size after the
\* section id is the number of bytes of the section's body that follow the
\* size field: for Code the encoded function count plus the function
\* bodies, for Data the segment header, the segment size field and the
\* data bytes.
C20_SectionSizes ==
  /\ \A k \in DOMAIN built :
       /\ SizeExact(built[k])
       /\ built[k][1] = SEC_CODE => CodeSizeExact(built[k])
       /\ built[k][1] = SEC_DATA => DataSizeExact(built[k])
  /\ IsOrdered(WrittenIds)
  /\ WrittenIds \in [DOMAIN built ->
                       {SEC_TYPE, SEC_IMPORT, SEC_FUNC, SEC_GLOBAL, SEC_EXPORT, SEC_CODE,
                        SEC_DATA}]
  /\ SectionIds(ConcatAll(built), 1) = WrittenIds

\* A module with all seven sections was written, its Code and Data sizes
\* taking two bytes each.
C20_Witness ==
  /\ pc = 9
  /\ WrittenIds = <<SEC_TYPE, SEC_IMPORT, SEC_FUNC, SEC_GLOBAL, SEC_EXPORT, SEC_CODE, SEC_DATA>>
  /\ DecodeUleb128(built[6], 2).next = 4
  /\ DecodeUleb128(built[7], 2).next = 4

(***************************************************************************)
(* parse_error (fe_misc.c): the error and warning counters                 *)
(*   flags    : [errors, warnings] = compile_error_count and               *)
(*              compile_warning_count                                      *)
(*   phase    : "compiling" while the process runs, "exited" after exit()  *)
(*   value    : the exit status once exited                                *)
(*   executed : the level of the last parse_error call                     *)
(***************************************************************************)
MAX_ERROR_COUNT == 25
MaxWarnings == 4

ParseErrorLevels == {"PE_WARNING", "PE_NOFATAL", "PE_FATAL"}

Counters(errors, warnings) == [errors |-> errors, warnings |-> warnings]

\* the result of one call: the counters, whether exit() ran, and its status
parse_error_late(level, counters) ==
  IF level = "PE_WARNING"
  THEN [counters |-> Counters(counters.errors, counters.warnings + 1),
        exited |-> FALSE, status |-> 0]
  ELSE LET n == counters.errors + 1
       IN [counters |-> Counters(n, counters.warnings),
           exited |-> (level = "PE_FATAL" \/ n > MAX_ERROR_COUNT),
           status |-> 1]

parse_error(level, counters) ==
  IF level = "PE_WARNING"
  THEN [counters |-> Counters(counters.errors, counters.warnings + 1),
        exited |-> FALSE, status |-> 0]
  ELSE LET n == counters.errors + 1
       IN [counters |-> Counters(n, counters.warnings),
           exited |-> (level = "PE_FATAL" \/ n >= MAX_ERROR_COUNT),
           status |-> 1]

InitParseError ==
  /\ flags = Counters(0, 0)
  /\ phase = "compiling"
  /\ value = 0
  /\ executed = <<>>
  /\ expr = <<>>
  /\ env = <<>>
  /\ built = <<>>
  /\ cg = CgInit
  /\ ret = NoReg
  /\ pc = 0
  /\ vregs = Idle

Reported(level) ==
  LET r == parse_error(level, flags)
  IN /\ flags' = r.counters
     /\ phase' = IF r.exited THEN "exited" ELSE "compiling"
     /\ value' = IF r.exited THEN r.status ELSE value
     /\ executed' = <<level>>
     /\ UNCHANGED <<expr, env, built, cg, ret, pc, vregs>>

WarningCall ==
  /\ phase = "compiling"
  /\ flags.warnings < MaxWarnings
  /\ Reported("PE_WARNING")

NoFatalCall ==
  /\ phase = "compiling"
  /\ Reported("PE_NOFATAL")

FatalCall ==
  /\ phase = "compiling"
  /\ Reported("PE_FATAL")

NextParseError == WarningCall \/ NoFatalCall \/ FatalCall

SpecParseError == InitParseError /\ [][NextParseError]_vars

WarningStep ==
  /\ flags'.warnings = flags.warnings + 1
  /\ flags'.errors = flags.errors
  /\ phase' = "compiling"

NoFatalStep ==
  /\ flags'.errors = flags.errors + 1
  /\ flags'.warnings = flags.warnings
  /\ IF flags'.errors < MAX_ERROR_COUNT
     THEN phase' = "compiling"
     ELSE phase' = "exited" /\ value' = 1

FatalStep ==
  /\ phase' = "exited"
  /\ value' = 1

ParseErrorStep ==
  /\ phase = "compiling"
  /\ executed' = <<"PE_WARNING">> => WarningStep
  /\ executed' = <<"PE_NOFATAL">> => NoFatalStep
  /\ executed' = <<"PE_FATAL">> => FatalStep

ErrorCountBounded ==
  /\ flags.errors <= MAX_ERROR_COUNT
  /\ phase = "compiling" => flags.errors < MAX_ERROR_COUNT

\* C21: a PE_WARNING call increments only compile_warning_count and the
\* process goes on; a PE_NOFATAL call increments compile_error_count by one
\* and the process goes on below 25 and exits with status 1 at 25; a PE_FATAL
\* call exits with status 1 at once; compile_error_count never exceeds 25 and
\* is below 25 whenever compilation is still running.
C21_ErrorLimit == [][ParseErrorStep]_vars /\ []ErrorCountBounded

C21_Witness ==
  /\ phase = "exited"
  /\ value = 1
  /\ flags.errors = MAX_ERROR_COUNT
  /\ flags.warnings > 0
  /\ executed = <<"PE_NOFATAL">>

(***************************************************************************)
(* gen_funcall: more register arguments than MAX_REG_ARGS in a call to a   *)
(* variadic function                                                       *)
(***************************************************************************)

IsVariadicCall(c) == c.func.type.kind = "TY_FUNC" /\ c.func.type.vaargs

RegClassArg(c, i) == ~is_stack_param(c.args[i].type)

\* The register-class arguments of c that come after MAX_REG_ARGS others.
BeyondLimit(c) ==
  {i \in 1 .. Len(c.args) :
     /\ RegClassArg(c, i)
     /\ Cardinality({j \in 1 .. (i - 1) : RegClassArg(c, j)}) >= MAX_REG_ARGS}

Overflowing(c) == IsVariadicCall(c) /\ BeyondLimit(c) # {}

PLit(n) == new_expr_fixlit(PtrType(1), BvOfInt(n))
WideLit == new_expr_fixlit(tyLong, BvShl(BvOfInt(1), 40))
Group(sub) == new_expr_unary("EX_GROUP", tyBool, sub)

CmpKindSet == {"EX_EQ", "EX_NE", "EX_LT", "EX_LE", "EX_GE", "EX_GT"}

\* Operand pairs of a comparison: signed, unsigned, pointer and long, with
\* the literal on either side.
CmpOperands ==
  {<<VarX, VarY>>, <<VarX, Lit(0)>>, <<Lit(1), VarX>>, <<Lit(1), Lit(0)>>,
   <<VarI, ULit(1)>>, <<ULit(1), VarI>>, <<VarP, PLit(1)>>, <<PLit(1), VarP>>,
   <<VarN, WideLit>>, <<WideLit, VarN>>}

CondAtoms ==
  {Lit(0), Lit(1), Lit(-1)}
    \cup {Cmp(k, o[1], o[2]) : k \in CmpKindSet, o \in CmpOperands}

CondOperandsOfLogic ==
  {Lit(0), Lit(1), Cmp("EX_LT", VarX, VarY), Cmp("EX_GE", Lit(1), VarX),
   Cmp("EX_GT", ULit(1), VarI), Not(Cmp("EX_EQ", VarX, Lit(0))),
   LogAnd(Cmp("EX_LE", VarX, VarY), Cmp("EX_NE", VarY, Lit(0))),
   Group(LogIor(Cmp("EX_LT", PLit(1), VarP), Lit(0)))}

CondLogic ==
  {LogAnd(a, b) : a \in CondOperandsOfLogic, b \in CondOperandsOfLogic}
    \cup {LogIor(a, b) : a \in CondOperandsOfLogic, b \in CondOperandsOfLogic}

CondExprs ==
  CondAtoms \cup {Not(a) : a \in CondAtoms} \cup {Group(a) : a \in CondAtoms}
    \cup CondLogic \cup {Not(c) : c \in CondLogic}

\* Values of i, p and n: small ones and ones with the top bit of the type set.
WideVals ==
  {[i |-> BvOfInt(0), p |-> BvOfInt(0), n |-> BvOfInt(0)],
   [i |-> BvOfInt(1), p |-> BvOfInt(1), n |-> BvShl(BvOfInt(1), 40)],
   [i |-> BvZext(BvOfInt(-MaxVal), 32), p |-> BvShl(BvOfInt(1), 63),
    n |-> BvNeg(BvShl(BvOfInt(1), 41))]}

CondEnvs ==
  {[x |-> vx, y |-> vy, i |-> w.i, p |-> w.p, c |-> {}, n |-> w.n, s |-> {}, t |-> {}] :
     vx \in IntVals, vy \in IntVals, w \in WideVals}

InitCondJmp ==
  /\ expr \in CondExprs
  /\ env \in CondEnvs
  /\ built \in BOOLEAN
  /\ phase = "lower"
  /\ value = 0
  /\ cg = CgInit
  /\ ret = NoReg
  /\ pc = <<1, 1>>
  /\ vregs = Idle
  /\ flags = NoFlags
  /\ executed = <<>>

\* bb = bb_split(curbb); gen_cond_jmp(expr, tf, bb); the block current on
\* return gets an instruction of its own; set_curbb(bb); bb gets one too.
LowerCondJmp ==
  /\ phase = "lower"
  /\ LET bb == NewBB(CgInit)
         m  == add_new_reg(bb_split(CgInit, CgInit.curbb), tyInt)
         g1 == gen_cond_jmp(m.cg, expr, built, bb, "top")
         g2 == new_ir_mov(g1, m.reg, new_const_vreg({0}, to_vtype(tyInt)), "fall")
         g3 == new_ir_mov(set_curbb(g2, bb), m.reg,
                          new_const_vreg({1}, to_vtype(tyInt)), "target")
     IN /\ cg' = g3
        /\ ret' = m.reg
        /\ value' = bb
        /\ pc' = SkipEmpty(g3, 1, 1)
        /\ vregs' = EntryRegs(g3, env)
  /\ phase' = "run"
  /\ UNCHANGED <<expr, env, built, flags, executed>>

NextCondJmp == LowerCondJmp \/ ExecStep

SpecCondJmp == InitCondJmp /\ [][NextCondJmp]_vars

\* Control was transferred to bb by a jump; the block that was current
\* when gen_cond_jmp returned was not entered.
JumpedToBB ==
  /\ \E k \in 1 .. Len(executed) :
       executed[k].ir.op = "IR_JMP" /\ executed[k].taken /\ executed[k].ir.bb = value
  /\ ExecutedFor("fall") = {}

FellThrough ==
  /\ \A k \in 1 .. Len(executed) :
       (executed[k].ir.op = "IR_JMP" /\ executed[k].taken) => executed[k].ir.bb /= value
  /\ ExecutedFor("fall") /= {}

RECURSIVE TopLogical(_)
TopLogical(e) == IF e.kind \in {"EX_NOT", "EX_GROUP"} THEN TopLogical(e.sub) ELSE e

LeftDecides ==
  LET e == TopLogical(expr)
  IN \/ e.kind = "EX_LOGAND" /\ ~Truthy(e.lhs, env)
     \/ e.kind = "EX_LOGIOR" /\ Truthy(e.lhs, env)

\* C23: the code of gen_cond_jmp(cond, tf, bb) transfers control to bb
\* exactly when the truth value of cond equals tf and otherwise falls
\* through to the block current on return, for conditions built from
\* constants, the six comparisons (signed, unsigned, pointer; literal on
\* either side), `!', `&&', `||' and grouping; the right operand of `&&' or
\* `||' is not executed when the left operand decides the outcome.
C23_CondJmp ==
  phase = "done" =>
    /\ IF Truthy(expr, env) = built THEN JumpedToBB ELSE FellThrough
    /\ LeftDecides => ExecutedFor("rhs") = {}

C23_Witness ==
  /\ phase = "done"
  /\ expr.kind = "EX_LOGAND"
  /\ expr.lhs.kind = "EX_GE" /\ expr.lhs.lhs.kind = "EX_FIXNUM"
  /\ expr.rhs.kind = "EX_GT" /\ expr.rhs.lhs.kind = "EX_FIXNUM"
  /\ ~LeftDecides
  /\ ExecutedFor("rhs") /= {}
  /\ built
  /\ JumpedToBB

(***************************************************************************)
(* ei_cond and ei_jmp: the code emitted for an integer COND or JMP, run on *)
(* a register file.                                                        *)
(*   env : the IR;  flags : the operand values;  value : the emitted code  *)
(*   executed : <<TRUE>> once a branch was taken, <<FALSE>> once not taken *)
(***************************************************************************)

COND_NONE == COND_UGT + 1
ZERO == "zero"
JmpLabel == ".L1"

\* ei_jmp with the operands of every branch in the order of the IR.
ei_jmp_inorder(ir) ==
  IF ir.cond.kind = COND_ANY THEN <<RvInsn("J", JmpLabel, "", "")>>
  ELSE IF ir.cond.kind = COND_NONE THEN <<>>
  ELSE LET opr1 == XR(ir.opr1)
           opr2 == IF ~ir.opr2.const THEN XR(ir.opr2) ELSE ZERO
           u    == ir.cond.unsigned
       IN CASE ir.cond.kind = COND_EQ -> <<RvInsn("BEQ", JmpLabel, opr1, opr2)>>
            [] ir.cond.kind = COND_NE -> <<RvInsn("BNE", JmpLabel, opr1, opr2)>>
            [] ir.cond.kind = COND_LT ->
                 <<RvInsn(IF u THEN "BLTU" ELSE "BLT", JmpLabel, opr1, opr2)>>
            [] ir.cond.kind = COND_GT ->
                 <<RvInsn(IF u THEN "BLTU" ELSE "BLT", JmpLabel, opr1, opr2)>>
            [] ir.cond.kind = COND_LE ->
                 <<RvInsn(IF u THEN "BGEU" ELSE "BGE", JmpLabel, opr1, opr2)>>
            [] ir.cond.kind = COND_GE ->
                 <<RvInsn(IF u THEN "BGEU" ELSE "BGE", JmpLabel, opr1, opr2)>>

\* A branch is RvInsn(op, label, rs1, rs2).
ei_jmp(ir) ==
  IF ir.cond.kind = COND_ANY THEN <<RvInsn("J", JmpLabel, "", "")>>
  ELSE IF ir.cond.kind = COND_NONE THEN <<>>
  ELSE LET opr1 == XR(ir.opr1)
           opr2 == IF ~ir.opr2.const THEN XR(ir.opr2) ELSE ZERO
           u    == ir.cond.unsigned
       IN CASE ir.cond.kind = COND_EQ -> <<RvInsn("BEQ", JmpLabel, opr1, opr2)>>
            [] ir.cond.kind = COND_NE -> <<RvInsn("BNE", JmpLabel, opr1, opr2)>>
            [] ir.cond.kind = COND_LT ->
                 <<RvInsn(IF u THEN "BLTU" ELSE "BLT", JmpLabel, opr1, opr2)>>
            [] ir.cond.kind = COND_GT ->
                 <<RvInsn(IF u THEN "BLTU" ELSE "BLT", JmpLabel, opr2, opr1)>>
            [] ir.cond.kind = COND_LE ->
                 <<RvInsn(IF u THEN "BGEU" ELSE "BGE", JmpLabel, opr2, opr1)>>
            [] ir.cond.kind = COND_GE ->
                 <<RvInsn(IF u THEN "BGEU" ELSE "BGE", JmpLabel, opr1, opr2)>>

BranchOps == {"J", "BEQ", "BNE", "BLT", "BGE", "BLTU", "BGEU"}

\* Whether the branch is taken on the register file.
RvBranchTaken(insn, regs) ==
  LET a == regs[insn.rs]
      b == regs[insn.imm]
  IN CASE insn.op = "J" -> TRUE
       [] insn.op = "BEQ" -> a = b
       [] insn.op = "BNE" -> a /= b
       [] insn.op = "BLT" -> BvSlt(a, b)
       [] insn.op = "BGE" -> ~BvSlt(a, b)
       [] insn.op = "BLTU" -> BvUlt(a, b)
       [] insn.op = "BGEU" -> ~BvUlt(a, b)

RvCondKinds == {COND_EQ, COND_NE, COND_LT, COND_LE, COND_GE, COND_GT}
RvCondVSizes == {2, 3}
Im12Words == {BvOfInt(0), BvOfInt(1), BvOfInt(-1), BvOfInt(2 ^ 11 - 1), BvOfInt(-(2 ^ 11))}

\* The operands the emitters accept (their assertions hold): opr1 is a
\* register; opr2 is a register, or a constant where the emitter takes one.
RvConstAllowed(kind, c, b) ==
  IF kind = "IR_JMP" THEN b = BvOfInt(0)
  ELSE IF c \in {COND_EQ, COND_NE} THEN b = BvOfInt(0)
  ELSE c \in {COND_LT, COND_GE}

RvCondIR(kind, c, u, vs, dstn, isconst, b) ==
  RvIR(kind,
       IF kind = "IR_COND" THEN RegOperand(dstn, 2) ELSE RvNull,
       RegOperand(1, vs),
       IF isconst THEN RvConst(b, vs) ELSE RegOperand(2, vs),
       u, RvCond(c, u))

RvCondRegs(ir, a, b) ==
  [r \in {"a1", "a2", "a3", ZERO} |->
     CASE r = XR(ir.opr1) -> a
       [] r = "a2" /\ ~ir.opr2.const -> b
       [] OTHER -> BvOfInt(0)]

InitRvCond ==
  /\ \/ \E kind \in {"IR_COND", "IR_JMP"}, c \in RvCondKinds, u \in BOOLEAN,
          vs \in RvCondVSizes, dstn \in 1 .. 3, wa \in OperandWords, wb \in OperandWords :
          LET a == Canonical(wa, vs, u)
              b == Canonical(wb, vs, u)
          IN /\ (kind = "IR_JMP" => dstn = 3)
             /\ (c \in {COND_EQ, COND_NE} /\ kind = "IR_COND") => b = BvOfInt(0)
             /\ \E isconst \in BOOLEAN :
                  /\ (c \in {COND_EQ, COND_NE} /\ kind = "IR_COND") => isconst
                  /\ isconst => RvConstAllowed(kind, c, b)
                  /\ env = RvCondIR(kind, c, u, vs, dstn, isconst, b)
                  /\ vregs = RvCondRegs(env, a, b)
                  /\ flags = [a |-> a, b |-> b, bits |-> 8 * 2 ^ vs]
     \/ \E c \in {COND_ANY, COND_NONE}, wa \in OperandWords :
          /\ env = RvIR("IR_JMP", RvNull, RvNull, RvNull, FALSE, RvCond(c, FALSE))
          /\ vregs = [r \in {"a1", "a2", "a3", ZERO} |-> IF r = "a1" THEN wa ELSE BvOfInt(0)]
          /\ flags = [a |-> wa, b |-> BvOfInt(0), bits |-> FixnumBits]
  /\ expr = <<>>
  /\ phase = "lowered"
  /\ built = <<>>
  /\ value = <<>>
  /\ cg = CgInit
  /\ ret = NoReg
  /\ pc = 1
  /\ executed = <<>>

EmitRvCond ==
  /\ phase = "lowered"
  /\ value' = IF env.kind = "IR_COND" THEN ei_cond(env) ELSE ei_jmp(env)
  /\ phase' = IF value' = <<>> THEN "run" ELSE "emitted"
  /\ UNCHANGED <<expr, env, built, cg, ret, pc, vregs, flags, executed>>

StepRvCond ==
  /\ phase = "emitted"
  /\ pc \in 1 .. Len(value)
  /\ value[pc].op \notin BranchOps
  /\ vregs' = [vregs EXCEPT ![value[pc].rd] = RvResult(value[pc], vregs)]
  /\ pc' = pc + 1
  /\ phase' = IF pc = Len(value) THEN "run" ELSE phase
  /\ UNCHANGED <<expr, env, built, value, cg, ret, flags, executed>>

BranchRvCond ==
  /\ phase = "emitted"
  /\ pc \in 1 .. Len(value)
  /\ value[pc].op \in BranchOps
  /\ executed' = <<RvBranchTaken(value[pc], vregs)>>
  /\ pc' = pc + 1
  /\ phase' = IF pc = Len(value) THEN "run" ELSE phase
  /\ UNCHANGED <<expr, env, built, value, cg, ret, vregs, flags>>

NextRvCond == EmitRvCond \/ StepRvCond \/ BranchRvCond
SpecRvCond == InitRvCond /\ [][NextRvCond]_vars

\* `opr1 cond opr2' on the operand values, at the operands' width.
RvCondHolds ==
  LET c == env.cond.kind
  IN CondHolds(IF env.cond.unsigned /\ c >= COND_LT THEN c + (COND_ULT - COND_LT) ELSE c,
               flags)

\* C24: for integer operands and the kinds LT, LE, GE, GT, signed and
\* unsigned, and EQ/NE against zero, the code of ei_cond leaves 1 in dst
\* when `opr1 cond opr2' holds and 0 otherwise; the branch of ei_jmp is
\* taken exactly when the condition holds; a JMP with condition ANY is an
\* unconditional jump and one with condition NONE emits nothing.
C24_CondAndJmp ==
  /\ phase /= "lowered" =>
       /\ (env.kind = "IR_JMP" /\ env.cond.kind = COND_ANY)
            => value = <<RvInsn("J", JmpLabel, "", "")>>
       /\ (env.kind = "IR_JMP" /\ env.cond.kind = COND_NONE) => value = <<>>
  /\ phase = "run" =>
       /\ (env.kind = "IR_COND") => vregs[XR(env.dst)] = BoolWord(RvCondHolds)
       /\ (env.kind = "IR_JMP" /\ env.cond.kind \in RvCondKinds)
            => executed = <<RvCondHolds>>

C24_Witness ==
  /\ phase = "run"
  /\ env.kind = "IR_COND"
  /\ env.cond = RvCond(COND_LE, TRUE)
  /\ XR(env.dst) = XR(env.opr1)
  /\ flags.a = BvShl(BvOfInt(1), 32) /\ flags.b = BvOfInt(-1)
  /\ Len(value) = 3
  /\ vregs[XR(env.dst)] = BvOfInt(1)

C24_WitnessJmp ==
  /\ phase = "run"
  /\ env.kind = "IR_JMP"
  /\ env.cond = RvCond(COND_GT, FALSE)
  /\ value = <<RvInsn("BLT", JmpLabel, "a2", "a1")>>
  /\ executed = <<TRUE>>

(***************************************************************************)
(* ei_cast, integer to integer: the emitted shifts, run on a register.     *)
(*   env : the IR_CAST;  flags.a : the source value;  value : the code     *)
(*   A shift instruction carries its amount as a number in imm.            *)
(***************************************************************************)

MinOf(a, b) == IF a < b THEN a ELSE b

ei_cast(ir) ==
  LET pows == ir.opr1.vsize
      powd == ir.dst.vsize
      pow  == MinOf(powd, pows)
      dst  == XR(ir.dst)
      src  == XR(ir.opr1)
  IN IF ir.unsigned
       THEN LET shift == (8 - 2 ^ pow) * TARGET_CHAR_BIT
            IN <<RvInsn("SLLI", dst, src, shift), RvInsn("SRLI", dst, dst, shift)>>
     ELSE IF pow < 2
       THEN LET shift == (4 - 2 ^ pows) * TARGET_CHAR_BIT
            IN <<RvInsn("SLLIW", dst, src, shift), RvInsn("SRAI", dst, dst, shift)>>
     ELSE <<RvInsn("SEXTW", dst, src, "")>>

\* The shift amounts the instruction can encode.
ShiftRange(op) ==
  CASE op \in {"SLLI", "SRLI", "SRAI"} -> 0 .. 63
    [] op = "SLLIW" -> 0 .. 31
ShiftOps == {"SLLI", "SRLI", "SRAI", "SLLIW"}
BadShift(insn) == insn.op \in ShiftOps /\ insn.imm \notin ShiftRange(insn.op)

CastWords ==
  {BvOfInt(0), BvOfInt(1), BvOfInt(-1), BvOfInt(2 ^ 7), BvOfInt(2 ^ 8 + 2 ^ 7),
   BvOfInt(2 ^ 15), BvOfInt(2 ^ 16 + 2 ^ 15), BvShl(BvOfInt(1), 31),
   BvAdd(BvShl(BvOfInt(1), 32), BvOfInt(2 ^ 7))}

CastSizes == 0 .. 3

InitCast ==
  /\ \E pows \in CastSizes, powd \in CastSizes, u \in BOOLEAN, su \in BOOLEAN,
        w \in CastWords, dstn \in {1, 3} :
       /\ pows /= powd
       /\ env = RvIR("IR_CAST", RegOperand(dstn, powd), RegOperand(1, pows), RvNull, u,
                     NoCond)
       /\ flags = [a |-> Canonical(w, pows, su), b |-> {}, bits |-> 8 * 2 ^ pows]
       /\ vregs = [r \in {"a1", "a3"} |-> IF r = "a1" THEN Canonical(w, pows, su)
                                          ELSE BvOfInt(0)]
  /\ expr = <<>>
  /\ phase = "lowered"
  /\ built = <<>>
  /\ value = <<>>
  /\ cg = CgInit
  /\ ret = NoReg
  /\ pc = 1
  /\ executed = <<>>

EmitCast ==
  /\ phase = "lowered"
  /\ value' = ei_cast(env)
  /\ phase' = "emitted"
  /\ UNCHANGED <<expr, env, built, cg, ret, pc, vregs, flags, executed>>

StepCast ==
  /\ phase = "emitted"
  /\ pc \in 1 .. Len(value)
  /\ ~BadShift(value[pc])
  /\ vregs' = [vregs EXCEPT ![value[pc].rd] = RvResult(value[pc], vregs)]
  /\ pc' = pc + 1
  /\ phase' = IF pc = Len(value) THEN "run" ELSE phase
  /\ UNCHANGED <<expr, env, built, value, cg, ret, flags, executed>>

\* A shift amount out of range: the assembler rejects the line.
RejectCast ==
  /\ phase = "emitted"
  /\ pc \in 1 .. Len(value)
  /\ BadShift(value[pc])
  /\ phase' = "rejected"
  /\ UNCHANGED <<expr, env, built, value, cg, ret, pc, vregs, flags, executed>>

NextCast == EmitCast \/ StepCast \/ RejectCast
SpecCast == InitCast /\ [][NextCast]_vars

\* The source truncated to the smaller width, then extended.
CastExpected ==
  LET bits == 8 * 2 ^ MinOf(env.dst.vsize, env.opr1.vsize)
  IN IF env.unsigned THEN BvZext(flags.a, bits) ELSE BvSext(flags.a, bits)

CastRight ==
  /\ phase /= "rejected"
  /\ phase \in {"emitted", "run"} => \A k \in 1 .. Len(value) : ~BadShift(value[k])
  /\ phase = "run" => vregs[XR(env.dst)] = CastExpected

\* C25: for an integer CAST between different sizes the code of ei_cast
\* leaves in dst the source truncated to the smaller of the two widths and
\* zero-extended when the UNSIGNED flag is set, sign-extended otherwise, for
\* every ordered pair of distinct sizes in {1, 2, 4, 8} bytes and every
\* source value; every shift amount is in the range of its instruction.
C25_Cast == CastRight

\* The cast is right when the flag is UNSIGNED, when it widens, and between
\* 4 and 8 bytes.
C25_UnsignedOrWidening ==
  (env.unsigned \/ env.opr1.vsize < env.dst.vsize \/ MinOf(env.dst.vsize, env.opr1.vsize) >= 2)
    => CastRight

\* int -> char, signed, of 0x180: slliw/srai by 0 leave 0x180, not -128.
C25_Witness ==
  /\ phase = "run"
  /\ ~env.unsigned /\ env.opr1.vsize = 2 /\ env.dst.vsize = 0
  /\ flags.a = BvOfInt(2 ^ 8 + 2 ^ 7)
  /\ value = <<RvInsn("SLLIW", "a3", "a1", 0), RvInsn("SRAI", "a3", "a3", 0)>>
  /\ vregs["a3"] = BvOfInt(2 ^ 8 + 2 ^ 7)
  /\ CastExpected = BvOfInt(-(2 ^ 7))

(***************************************************************************)
(* push_callee_save_regs and pop_callee_save_regs: slot by slot            *)
(***************************************************************************)

CalleeStores(code) == {k \in DOMAIN code : code[k].op \in {"SD", "FSD"}}
CalleeLoads(code) == {k \in DOMAIN code : code[k].op \in {"LD", "FLD"}}
LoadOf(op) == IF op = "SD" THEN "LD" ELSE "FLD"
\* The amount the ADDIs of the code add to SP.
RECURSIVE SpMoved(_)
SpMoved(code) ==
  IF code = <<>> THEN 0
  ELSE (IF Head(code).op = "ADDI" /\ Head(code).rd = "sp" THEN Head(code).imm ELSE 0)
         + SpMoved(Tail(code))

SlotsMatch(push, pop) ==
  /\ \A k \in CalleeStores(push) :
       \E j \in CalleeLoads(pop) :
         /\ pop[j].op = LoadOf(push[k].op)
         /\ pop[j].rd = push[k].rd
         /\ pop[j].rs = push[k].rs
         /\ pop[j].imm = push[k].imm
  /\ Cardinality(CalleeLoads(pop)) = Cardinality(CalleeStores(push))
  /\ SpMoved(pop) = -SpMoved(push)
  /\ (-SpMoved(push)) % 16 = 0
  /\ value.sp = SP0

\* C26: for every pair of used integer and float register masks,
\* pop_callee_save_regs loads each register from the SP-relative slot into
\* which push_callee_save_regs stored it, moves SP back by the amount push
\* lowered it, and that amount is a multiple of 16 bytes, also when integer
\* and float callee-save registers are in use together.
C26_PushPopSlots ==
  phase = "popped" =>
    SlotsMatch(push_callee_save_regs(env.used, env.fused), built)

\* The slots agree when only one class of callee-save registers is saved.
C26_OneClass ==
  (/\ phase = "popped"
   /\ \/ enum_callee_save_regs(env.used, kCalleeSaveRegs, kReg64s) = <<>>
      \/ enum_callee_save_regs(env.fused, kCalleeSaveFRegs, kFReg64s) = <<>>)
    => SlotsMatch(push_callee_save_regs(env.used, env.fused), built)

\* s2 and fs0 in use: push stored s2 at 8(sp), pop loads it from 0(sp).
C26_Witness ==
  /\ phase = "popped"
  /\ enum_callee_save_regs(env.used, kCalleeSaveRegs, kReg64s) = <<"s2">>
  /\ enum_callee_save_regs(env.fused, kCalleeSaveFRegs, kFReg64s) = <<"fs0">>
  /\ RvStore("SD", "s2", 8, "sp") \in
       {push_callee_save_regs(env.used, env.fused)[k] :
          k \in DOMAIN push_callee_save_regs(env.used, env.fused)}
  /\ RvLoad("LD", "s2", 0, "sp") \in {built[k] : k \in DOMAIN built}
  /\ value.regs["s2"] = RvEntryVal("fs0")

(***************************************************************************)
(* tweak_irs against the assertions of the emitters on constant operands:  *)
(* blocks of two instructions, tweaked and emitted.                        *)
(***************************************************************************)

\* The assertions on VRF_CONST an emitter makes before it emits ir.
EmitterAsserts(ir) ==
  CASE ir.kind = "IR_LOAD" -> ~ir.opr1.const
    [] ir.kind = "IR_STORE" -> ~ir.opr2.const
    [] ir.kind \in {"IR_ADD", "IR_SUB"} -> ir.dst.flonum \/ ~ir.opr1.const
    [] ir.kind \in {"IR_BITAND", "IR_BITOR", "IR_BITXOR", "IR_LSHIFT", "IR_RSHIFT"} ->
         ~ir.opr1.const
    [] ir.kind \in {"IR_MUL", "IR_DIV", "IR_MOD"} ->
         ir.dst.flonum \/ (~ir.opr1.const /\ ~ir.opr2.const)
    [] ir.kind \in {"IR_PUSHARG", "IR_TJMP", "IR_NEG"} -> ~ir.opr1.const
    [] ir.kind = "IR_MOV" -> ~ir.dst.const
    [] ir.kind = "IR_COND" ->
         /\ ~ir.opr1.const
         /\ ir.opr1.flonum
              \/ CASE ir.cond.kind \in {COND_EQ, COND_NE} ->
                        ir.opr2.const /\ ir.opr2.fixnum = {}
                   [] ir.cond.kind \in {COND_GT, COND_LE} -> ~ir.opr2.const
                   [] OTHER -> TRUE
    [] ir.kind = "IR_JMP" ->
         ir.cond.kind \in {COND_ANY, COND_NONE}
           \/ (~ir.opr1.const /\ (~ir.opr2.const \/ ir.opr2.fixnum = {}))
    [] OTHER -> TRUE

MoreInputs ==
  BopInputs({"IR_DIV", "IR_MOD", "IR_RSHIFT"})
    \cup {RvIR("IR_JMP", RvNull, RegOperand(1, 3), o2, FALSE, RvCond(c, u)) :
            c \in {COND_LE, COND_GE, COND_GT}, u \in BOOLEAN,
            o2 \in {RegOperand(2, 3), RvConst(BvOfInt(2 ^ 12), 3), RvConst({}, 3)}}
    \cup {RvIR("IR_JMP", RvNull, RvNull, RvNull, FALSE, RvCond(c, FALSE)) :
            c \in {COND_ANY, COND_NONE}}
    \cup {RvIR("IR_STORE", RvNull, RegOperand(1, 3), RegOperand(2, 3), FALSE, NoCond),
          RvIR("IR_LOAD", RegOperand(3, 3), RegOperand(1, 3), RvNull, FALSE, NoCond)}

\* The instruction that follows the first one in its block.
SecondInputs ==
  {RvIR("IR_MUL", RegOperand(3, 3), RegOperand(1, 3), RvConst(BvOfInt(1), 3), FALSE, NoCond),
   RvIR("IR_SUB", RegOperand(3, 2), RvConst(BvOfInt(1), 2), RegOperand(2, 2), FALSE, NoCond),
   RvIR("IR_SUB", RegOperand(3, 2), RvConst({}, 2), RegOperand(2, 2), FALSE, NoCond),
   RvIR("IR_COND", RegOperand(3, 2), RegOperand(1, 3), RvConst(BvOfInt(1), 3), FALSE,
        RvCond(COND_GT, FALSE)),
   RvIR("IR_COND", RegOperand(3, 2), RegOperand(1, 3), RvConst(BvOfInt(1), 3), FALSE,
        RvCond(COND_NE, TRUE)),
   RvIR("IR_JMP", RvNull, RvVReg(1, 3, TRUE), RvVReg(2, 3, TRUE), FALSE,
        RvCond(COND_NE, FALSE)),
   RvIR("IR_JMP", RvNull, RegOperand(1, 3), RvConst(BvOfInt(1), 3), FALSE,
        RvCond(COND_LE, TRUE)),
   RvIR("IR_PUSHARG", RvNull, RvConst(BvOfInt(2 ^ 17), 3), RvNull, FALSE, NoCond),
   RvIR("IR_STORE", RvNull, RegOperand(1, 3), RvConst(BvOfInt(8), 3), FALSE, NoCond),
   RvIR("IR_LSHIFT", RegOperand(3, 3), RvConst(BvOfInt(1), 3), RegOperand(2, 3), FALSE,
        NoCond)}

\* No binary instruction with two constants, no COND or conditional JMP
\* with a constant first operand.
Admitted(ir) ==
  /\ ~(ir.opr1.const /\ ir.opr2.const)
  /\ ir.kind \in {"IR_COND", "IR_JMP"} => ~ir.opr1.const

InitTweakPair ==
  /\ \E a \in TweakInputs \cup MoreInputs, b \in SecondInputs :
       /\ Admitted(a) /\ Admitted(b)
       /\ env = a
       /\ expr = <<a, b>>
  /\ phase = "lowered"
  /\ built = <<>>
  /\ value = <<>>
  /\ cg = CgInit
  /\ ret = NoReg
  /\ pc = Idle
  /\ vregs = Idle
  /\ flags = NoFlags
  /\ executed = <<>>

SpecTweakPair == InitTweakPair /\ [][NextTweak]_vars

\* C27: for every instruction sequence without a binary instruction of two
\* constants and without a COND or conditional JMP whose first operand is
\* constant, no constant-operand assertion of the emitter fails after
\* tweak_irs: the address of LOAD and STORE, the first operand of ADD, SUB,
\* BITAND, BITOR, BITXOR, LSHIFT and RSHIFT, both operands of MUL, DIV and
\* MOD and the PUSHARG operand are not constant; an integer EQ/NE COND has
\* the constant 0 as second operand, a GT or LE COND a non-constant one; the
\* second operand of a conditional JMP is not constant or is 0.
C27_AssertsHold ==
  phase \in {"tweaked", "emitted"} =>
    \A k \in 1 .. Len(built) : EmitterAsserts(built[k])

C27_Witness ==
  /\ phase = "emitted"
  /\ expr[1].kind = "IR_DIV" /\ expr[1].opr2.const
  /\ expr[2].kind = "IR_COND" /\ expr[2].cond.kind = COND_GT
  /\ Len(built) = 4
  /\ built[1].kind = "IR_MOV" /\ built[2].kind = "IR_DIV" /\ built[2].opr2 = built[1].dst
  /\ built[3].kind = "IR_MOV" /\ built[4].kind = "IR_COND" /\ built[4].opr2 = built[3].dst

(***************************************************************************)
(* fe_misc.c: find_var_from_scope and add_var_to_scope on one scope.       *)
(*   env      : the scope: [global, vars], vars the list of VarInfo        *)
(*   flags    : the diagnostics counters of parse_error                    *)
(*   executed : the last call: its arguments, the index of the VarInfo it  *)
(*              returned and the diagnostic it reported ("" for none)      *)
(***************************************************************************)

MaxDiagnostics == 3
VS_EXTERN == "VS_EXTERN"
VS_STATIC == "VS_STATIC"
ScopeNames == {"a", "b"}
ScopeTypes == {tyInt, tyChar}
Storages == {{}, {VS_EXTERN}, {VS_STATIC}, {VS_EXTERN, VS_STATIC}}

VarInfoOf(name, type, storage) ==
  [name |-> name, type |-> type, storage |-> storage, init |-> FALSE]

\* var_find(vars, name): the index of the entry of that name, 0 for none.
var_find(list, name) ==
  IF \E k \in DOMAIN list : list[k].name = name
    THEN CHOOSE k \in DOMAIN list : list[k].name = name
    ELSE 0

\* scope_add: a new VarInfo at the end of the scope's list.
scope_add(scope, name, type, storage) ==
  [scope EXCEPT !.vars = Append(@, VarInfoOf(name, type, storage))]

\* find_var_from_scope that clears VS_EXTERN whatever the new storage is.
find_var_from_scope_clears(scope, name, type, storage) ==
  LET idx == var_find(scope.vars, name)
  IN IF idx = 0 THEN [idx |-> 0, scope |-> scope, diag |-> ""]
     ELSE IF ~same_type(type, scope.vars[idx].type)
       THEN [idx |-> idx, scope |-> scope, diag |-> "type conflict"]
     ELSE IF VS_EXTERN \in scope.vars[idx].storage
       THEN [idx |-> idx,
             scope |-> [scope EXCEPT !.vars[idx].storage = @ \ {VS_EXTERN}],
             diag |-> ""]
     ELSE IF VS_EXTERN \in storage \/ (scope.global /\ ~scope.vars[idx].init)
       THEN [idx |-> idx, scope |-> scope, diag |-> ""]
     ELSE [idx |-> idx, scope |-> scope, diag |-> "already defined"]

\* The VarInfo found (idx, 0 for NULL), the scope afterwards and the
\* diagnostic handed to parse_error(PE_NOFATAL, ...).
find_var_from_scope(scope, name, type, storage) ==
  LET idx == var_find(scope.vars, name)
  IN IF idx = 0 THEN [idx |-> 0, scope |-> scope, diag |-> ""]
     ELSE IF ~same_type(type, scope.vars[idx].type)
       THEN [idx |-> idx, scope |-> scope, diag |-> "type conflict"]
     ELSE IF VS_EXTERN \notin storage
       THEN IF VS_EXTERN \in scope.vars[idx].storage
              THEN [idx |-> idx,
                    scope |-> [scope EXCEPT !.vars[idx].storage = @ \ {VS_EXTERN}],
                    diag |-> ""]
            ELSE IF scope.global /\ ~scope.vars[idx].init
              THEN [idx |-> idx, scope |-> scope, diag |-> ""]
            ELSE [idx |-> idx, scope |-> scope, diag |-> "already defined"]
     ELSE [idx |-> idx, scope |-> scope, diag |-> ""]

add_var_to_scope(scope, name, type, storage) ==
  LET f == find_var_from_scope(scope, name, type, storage)
  IN IF f.idx /= 0 THEN f
     ELSE [idx |-> Len(scope.vars) + 1, scope |-> scope_add(scope, name, type, storage),
           diag |-> ""]

InitScope ==
  /\ env \in [global : BOOLEAN, vars : {<<>>}]
  /\ flags = Counters(0, 0)
  /\ executed = <<>>
  /\ phase = "compiling"
  /\ value = 0
  /\ expr = <<>>
  /\ built = <<>>
  /\ cg = CgInit
  /\ ret = NoReg
  /\ pc = 0
  /\ vregs = Idle

\* One declaration: add_var_to_scope with its diagnostic reported.
AddVar ==
  /\ phase = "compiling"
  /\ flags.errors < MaxDiagnostics
  /\ \E name \in ScopeNames, type \in ScopeTypes, storage \in Storages :
       LET r == add_var_to_scope(env, name, type, storage)
           e == IF r.diag = "" THEN [counters |-> flags, exited |-> FALSE, status |-> 0]
                ELSE parse_error("PE_NOFATAL", flags)
       IN /\ env' = r.scope
          /\ flags' = e.counters
          /\ phase' = IF e.exited THEN "exited" ELSE "compiling"
          /\ value' = IF e.exited THEN e.status ELSE value
          /\ executed' = <<[name |-> name, type |-> type, storage |-> storage,
                            returned |-> r.idx, diag |-> r.diag]>>
  /\ UNCHANGED <<expr, built, cg, ret, pc, vregs>>

\* The parser attaches an initializer to a global variable it has declared.
SetInitializer ==
  /\ phase = "compiling"
  /\ env.global
  /\ \E k \in DOMAIN env.vars :
       /\ ~env.vars[k].init
       /\ VS_EXTERN \notin env.vars[k].storage
       /\ env' = [env EXCEPT !.vars[k].init = TRUE]
  /\ executed' = <<>>
  /\ UNCHANGED <<expr, phase, built, value, cg, ret, pc, vregs, flags>>

NextScope == AddVar \/ SetInitializer
SpecScope == InitScope /\ [][NextScope]_vars

NamesOnce ==
  \A j, k \in DOMAIN env.vars : env.vars[j].name = env.vars[k].name => j = k

\* What the claim says of one call, given the scope before and after it.
DeclStep ==
  executed' /= <<>> =>
    LET call == executed'[1]
        idx  == var_find(env.vars, call.name)
        old  == env.vars[idx]
        Same == env'.vars = env.vars
    IN IF idx = 0
         THEN /\ env'.vars = Append(env.vars, VarInfoOf(call.name, call.type, call.storage))
              /\ call.returned = Len(env.vars) + 1
              /\ call.diag = ""
         ELSE /\ Len(env'.vars) = Len(env.vars)
              /\ call.returned = idx
              /\ \A k \in DOMAIN env.vars : k /= idx => env'.vars[k] = env.vars[k]
              /\ VS_EXTERN \in call.storage => env'.vars[idx].storage = old.storage
              /\ IF call.type /= old.type THEN call.diag = "type conflict" /\ Same
                 ELSE IF VS_EXTERN \in call.storage THEN call.diag = "" /\ Same
                 ELSE IF VS_EXTERN \in old.storage
                   THEN /\ call.diag = ""
                        /\ env'.vars[idx] = [old EXCEPT !.storage = @ \ {VS_EXTERN}]
                 ELSE IF env.global /\ ~old.init THEN call.diag = "" /\ Same
                 ELSE call.diag = "already defined" /\ Same

\* C28: after any sequence of add_var_to_scope calls each name occurs at
\* most once in the scope's list; a redeclaration returns the existing
\* VarInfo and adds no entry: it reports `type conflict' when the types
\* differ, clears VS_EXTERN when a non-extern declaration follows an extern
\* one, accepts a repeated global declaration whose predecessor has no
\* initializer, reports `already defined' otherwise; a declaration with
\* VS_EXTERN never changes the storage flags of the existing entry.
C28_ScopeNames == []NamesOnce /\ [][DeclStep]_vars

C28_Witness ==
  /\ Len(env.vars) = 2
  /\ executed /= <<>>
  /\ executed[1].returned = 1
  /\ executed[1].diag = "already defined"
  /\ env.global
  /\ env.vars[1].init
  /\ flags.errors = 2

(***************************************************************************)
(* fe_misc.c: make_cond and make_not_expr                                  *)
(*   expr  : the expression e handed to both                               *)
(*   env   : the values of the variables when the conditions are evaluated *)
(*   built : <<make_cond(e)>>, then <<make_cond(e), make_not_expr(e)>>     *)
(*   value : the truth values of the two built conditions                  *)
(* A floating-point value is [nan, n]; comparisons of floating-point       *)
(* operands are evaluated as the code emitted for them evaluates them.     *)
(***************************************************************************)

NaN == [nan |-> TRUE, n |-> 0]
Flo(n) == [nan |-> FALSE, n |-> n]
tyDouble == FlonumType(FL_DOUBLE)
new_expr_flolit(type, flonum) == [kind |-> "EX_FLONUM", type |-> type, flonum |-> flonum]
is_flonum(type) == type.kind = "TY_FLONUM"

\* make_cast(type, fixlit(&tyInt, 0)): the constant 0 of that type.
ZeroOf(type) ==
  IF is_flonum(type) THEN new_expr_flolit(type, Flo(0))
  ELSE make_cast(type, new_expr_fixlit(tyInt, BvOfInt(0)))

\* new_expr_cmp for two numbers of one type: folded when both are constants.
new_expr_cmp(kind, lhs, rhs) ==
  IF is_const(lhs) /\ is_const(rhs)
    THEN LET lt == IF lhs.type.is_unsigned THEN BvUlt(lhs.fixnum, rhs.fixnum)
                   ELSE BvSlt(lhs.fixnum, rhs.fixnum)
             gt == IF lhs.type.is_unsigned THEN BvUlt(rhs.fixnum, lhs.fixnum)
                   ELSE BvSlt(rhs.fixnum, lhs.fixnum)
             tf == CASE kind = "EX_EQ" -> lhs.fixnum = rhs.fixnum
                     [] kind = "EX_NE" -> lhs.fixnum /= rhs.fixnum
                     [] kind = "EX_LT" -> lt
                     [] kind = "EX_LE" -> ~gt
                     [] kind = "EX_GE" -> ~lt
                     [] kind = "EX_GT" -> gt
         IN new_expr_fixlit(tyBool, IF tf THEN BvOfInt(1) ELSE BvOfInt(0))
    ELSE new_expr_bop(kind, tyBool, lhs, rhs)

RECURSIVE make_cond(_)
make_cond(e) ==
  CASE e.kind = "EX_FIXNUM" ->
         new_expr_fixlit(tyBool, IF e.fixnum /= BvOfInt(0) THEN BvOfInt(1) ELSE BvOfInt(0))
    [] e.kind = "EX_FLONUM" ->
         new_expr_fixlit(tyBool, IF e.flonum /= Flo(0) THEN BvOfInt(1) ELSE BvOfInt(0))
    [] e.kind = "EX_STR" -> new_expr_fixlit(tyBool, BvOfInt(1))
    [] e.kind \in {"EX_EQ", "EX_NE", "EX_LT", "EX_LE", "EX_GE", "EX_GT",
                   "EX_LOGAND", "EX_LOGIOR"} -> e
    [] e.kind = "EX_COMMA" -> [e EXCEPT !.rhs = make_cond(e.rhs)]
    [] OTHER ->
         IF e.type.kind \in {"TY_ARRAY", "TY_FUNC"}
           THEN new_expr_fixlit(tyBool, BvOfInt(1))
           ELSE new_expr_cmp("EX_NE", e, ZeroOf(e.type))

RECURSIVE make_not_expr(_)
make_not_expr(e) ==
  LET cond == make_cond(e)
      kind == cond.kind
      EX(k) == CmpIndex(k)
  IN CASE kind = "EX_FIXNUM" ->
            [cond EXCEPT !.fixnum = IF @ = BvOfInt(0) THEN BvOfInt(1) ELSE BvOfInt(0)]
       [] kind \in {"EX_EQ", "EX_NE"} ->
            [cond EXCEPT !.kind = CmpKinds[(EX("EX_EQ") + EX("EX_NE")) - EX(kind)]]
       [] kind \in {"EX_LT", "EX_LE", "EX_GE", "EX_GT"} ->
            \* EX_LT + ((kind - EX_LT) ^ 2): the offset 0..3 with bit 1 flipped.
            [cond EXCEPT !.kind = CmpKinds[EX("EX_LT") + (((EX(kind) - EX("EX_LT")) + 2) % 4)]]
       [] kind \in {"EX_LOGAND", "EX_LOGIOR"} ->
            new_expr_bop(IF kind = "EX_LOGAND" THEN "EX_LOGIOR" ELSE "EX_LOGAND",
                         tyBool, make_not_expr(cond.lhs), make_not_expr(cond.rhs))
       [] kind = "EX_COMMA" -> [cond EXCEPT !.rhs = make_not_expr(cond.rhs)]

\* The result of a comparison of two floating-point registers: feq, flt and
\* fle with the operands exchanged for GT and GE, and seqz after feq for NE.
FloatCmp(kind, a, b) ==
  LET feq(u, v) == ~u.nan /\ ~v.nan /\ u.n = v.n
      flt(u, v) == ~u.nan /\ ~v.nan /\ u.n < v.n
      fle(u, v) == ~u.nan /\ ~v.nan /\ u.n <= v.n
  IN CASE kind = "EX_EQ" -> feq(a, b)
       [] kind = "EX_NE" -> ~feq(a, b)
       [] kind = "EX_LT" -> flt(a, b)
       [] kind = "EX_GT" -> flt(b, a)
       [] kind = "EX_LE" -> fle(a, b)
       [] kind = "EX_GE" -> fle(b, a)

\* The value C gives an expression: a word, or [nan, n] for a double.
RECURSIVE CValue(_, _)
CTruth(e, en) ==
  LET v == CValue(e, en)
  IN IF is_flonum(e.type) THEN v.nan \/ v.n /= 0 ELSE v /= BvOfInt(0)
CValue(e, en) ==
  LET Bool(b) == IF b THEN BvOfInt(1) ELSE BvOfInt(0)
  IN CASE e.kind = "EX_FIXNUM" -> e.fixnum
       [] e.kind = "EX_FLONUM" -> e.flonum
       [] e.kind = "EX_VARIABLE" -> en[e.name]
       [] e.kind = "EX_ADD" -> TypeWrap(BvAdd(CValue(e.lhs, en), CValue(e.rhs, en)), e.type)
       [] e.kind = "EX_COMMA" -> CValue(e.rhs, en)
       [] e.kind = "EX_LOGAND" -> Bool(CTruth(e.lhs, en) /\ CTruth(e.rhs, en))
       [] e.kind = "EX_LOGIOR" -> Bool(CTruth(e.lhs, en) \/ CTruth(e.rhs, en))
       [] e.kind \in CmpKindSet ->
            LET a == CValue(e.lhs, en)
                b == CValue(e.rhs, en)
                lt(u, v) == IF e.lhs.type.is_unsigned THEN BvUlt(u, v) ELSE BvSlt(u, v)
            IN IF is_flonum(e.lhs.type) THEN Bool(FloatCmp(e.kind, a, b))
               ELSE (CASE e.kind = "EX_EQ" -> Bool(a = b)
                       [] e.kind = "EX_NE" -> Bool(a /= b)
                       [] e.kind = "EX_LT" -> Bool(lt(a, b))
                       [] e.kind = "EX_LE" -> Bool(~lt(b, a))
                       [] e.kind = "EX_GE" -> Bool(~lt(a, b))
                       [] e.kind = "EX_GT" -> Bool(lt(b, a)))

NotX == new_expr_variable("x", tyInt)
NotY == new_expr_variable("y", tyInt)
NotF == new_expr_variable("f", tyDouble)
NotG == new_expr_variable("g", tyDouble)
NotLit(n) == new_expr_fixlit(tyInt, BvOfInt(n))
NotConsts == {NotLit(n) : n \in {-1, 0, 1, 2}}
NotOthers == {NotX, new_expr_bop("EX_ADD", tyInt, NotX, NotY)}
NotIntCmps ==
  {new_expr_bop(k, tyBool, NotX, r) : k \in CmpKindSet, r \in {NotY, NotLit(1)}}
NotFloatCmps == {new_expr_bop(k, tyBool, NotF, NotG) : k \in CmpKindSet}
NotAtoms == NotConsts \cup NotOthers \cup NotIntCmps \cup NotFloatCmps
NotOperands ==
  {NotLit(0), NotLit(2), NotX, NotF, new_expr_flolit(tyDouble, Flo(0)),
   new_expr_bop("EX_LT", tyBool, NotX, NotY), new_expr_bop("EX_EQ", tyBool, NotX, NotY),
   new_expr_bop("EX_LE", tyBool, NotF, NotG), new_expr_bop("EX_NE", tyBool, NotF, NotG),
   new_expr_bop("EX_COMMA", tyInt, NotY, NotX)}
NotLogic ==
  {new_expr_bop(k, tyBool, a, b) : k \in {"EX_LOGAND", "EX_LOGIOR"},
                                    a \in NotOperands, b \in NotOperands}
NotInner ==
  {new_expr_bop(k, tyBool, a, b) :
     k \in {"EX_LOGAND", "EX_LOGIOR"},
     a \in {NotX, NotLit(0), new_expr_bop("EX_GT", tyBool, NotX, NotY)},
     b \in {NotY, new_expr_bop("EX_GE", tyBool, NotX, NotLit(1))}}
NotNested ==
  {new_expr_bop(k, tyBool, a, NotX) : k \in {"EX_LOGAND", "EX_LOGIOR"}, a \in NotInner}
    \cup {new_expr_bop(k, tyBool, new_expr_bop("EX_NE", tyBool, NotX, NotY), b) :
            k \in {"EX_LOGAND", "EX_LOGIOR"}, b \in NotInner}
NotCommas ==
  {new_expr_bop("EX_COMMA", r.type, NotY, r) : r \in NotAtoms \cup NotInner}
NotExprs == NotAtoms \cup NotLogic \cup NotNested \cup NotCommas
NotInts == {BvOfInt(n) : n \in {-1, 0, 1}}
NotFloats == {NaN, Flo(0), Flo(1)}
NotEnvs == [x : NotInts, y : NotInts, f : NotFloats, g : NotFloats]

InitNot ==
  /\ expr \in NotExprs
  /\ env \in NotEnvs
  /\ phase = "parsed"
  /\ built = <<>>
  /\ value = <<>>
  /\ cg = CgInit
  /\ ret = NoReg
  /\ pc = 0
  /\ vregs = Idle
  /\ flags = NoFlags
  /\ executed = <<>>

MakeCond ==
  /\ phase = "parsed"
  /\ built' = <<make_cond(expr)>>
  /\ phase' = "cond"
  /\ UNCHANGED <<expr, env, value, cg, ret, pc, vregs, flags, executed>>

MakeNotExpr ==
  /\ phase = "cond"
  /\ built' = Append(built, make_not_expr(expr))
  /\ phase' = "negated"
  /\ UNCHANGED <<expr, env, value, cg, ret, pc, vregs, flags, executed>>

EvalConds ==
  /\ phase = "negated"
  /\ value' = <<CTruth(built[1], env), CTruth(built[2], env)>>
  /\ phase' = "evaluated"
  /\ UNCHANGED <<expr, env, built, cg, ret, pc, vregs, flags, executed>>

NextNot == MakeCond \/ MakeNotExpr \/ EvalConds
SpecNot == InitNot /\ [][NextNot]_vars

\* The shape the claim gives the negation n of the condition c.
RECURSIVE NotShape(_, _)
NotShape(c, n) ==
  LET Swapped(k) ==
        CASE k = "EX_EQ" -> "EX_NE" [] k = "EX_NE" -> "EX_EQ"
          [] k = "EX_LT" -> "EX_GE" [] k = "EX_GE" -> "EX_LT"
          [] k = "EX_LE" -> "EX_GT" [] k = "EX_GT" -> "EX_LE"
  IN CASE c.kind = "EX_FIXNUM" ->
            n.kind = "EX_FIXNUM" /\ (n.fixnum = BvOfInt(0)) = (c.fixnum /= BvOfInt(0))
       [] c.kind \in CmpKindSet ->
            n.kind = Swapped(c.kind) /\ n.lhs = c.lhs /\ n.rhs = c.rhs
       [] c.kind \in {"EX_LOGAND", "EX_LOGIOR"} ->
            /\ n.kind = (IF c.kind = "EX_LOGAND" THEN "EX_LOGIOR" ELSE "EX_LOGAND")
            /\ NotShape(make_cond(c.lhs), n.lhs)
            /\ NotShape(make_cond(c.rhs), n.rhs)
       [] c.kind = "EX_COMMA" -> n.kind = "EX_COMMA" /\ n.lhs = c.lhs /\ NotShape(c.rhs, n.rhs)
       [] OTHER -> FALSE

OtherKind(e) ==
  e.kind \notin CmpKindSet \cup {"EX_FIXNUM", "EX_LOGAND", "EX_LOGIOR", "EX_COMMA"}

NotIsComplement ==
  /\ phase \in {"negated", "evaluated"} =>
       /\ NotShape(built[1], built[2])
       /\ OtherKind(expr) =>
            /\ built[1].kind = "EX_NE"
            /\ built[1].lhs = expr
            /\ built[1].rhs = NotLit(0)
  /\ phase = "evaluated" => value[2] = ~value[1]

\* C29: for every integer-typed expression e, make_not_expr(e) is true
\* exactly when make_cond(e) is false: constants are inverted, EQ and NE,
\* LT and GE, LE and GT are exchanged, `a && b' becomes `!a || !b' and
\* `a || b' becomes `!a && !b', a comma expression has its right operand
\* negated, and any other expression is first turned into `e != 0'.
C29_NotIsComplement == NotIsComplement

\* No ordering comparison of e has an operand that is not a number.
RECURSIVE Ordered(_, _)
Ordered(e, en) ==
  CASE e.kind \in {"EX_LT", "EX_LE", "EX_GE", "EX_GT"} ->
         is_flonum(e.lhs.type) => ~CValue(e.lhs, en).nan /\ ~CValue(e.rhs, en).nan
    [] e.kind \in {"EX_LOGAND", "EX_LOGIOR"} -> Ordered(e.lhs, en) /\ Ordered(e.rhs, en)
    [] e.kind = "EX_COMMA" -> Ordered(e.rhs, en)
    [] OTHER -> TRUE

\* The same for the expressions whose ordering comparisons are of numbers.
C29_OrderedOperands == Ordered(expr, env) => NotIsComplement

C29_Witness ==
  /\ phase = "evaluated"
  /\ expr = new_expr_bop("EX_LT", tyBool, NotF, NotG)
  /\ built[2].kind = "EX_GE"
  /\ env.f = NaN
  /\ value = <<FALSE, FALSE>>

(***************************************************************************)
(* The value of `s.f = rhs' as built by assign_to_bitfield                 *)
(***************************************************************************)

\* The value of the right operand, and what the field holds after the store.
RhsValue == value.st.vars.i
FieldHeld == Reduce(FieldOf(value.st.mem, env.position, env.width), env.width, env.unit)
AssignValue ==
  /\ value.v = Reduce(RhsValue, env.width, env.unit)
  /\ value.v = FieldHeld

\* C30: the value of the simple assignment `s.f = rhs' built by
\* assign_to_bitfield equals the value the field holds after the store, rhs
\* reduced to the field's width and signedness, for every rhs value,
\* including values that do not fit in the field.
C30_AssignValue ==
  (phase = "evaluated" /\ expr = "EX_ASSIGN") => AssignValue

\* The same for the values that fit in a field narrower than UFixnum.
C30_FittingValues ==
  (phase = "evaluated" /\ expr = "EX_ASSIGN" /\ env.width < FixnumBits
     /\ Reduce(RhsValue, env.width, env.unit) = RhsValue)
    => AssignValue

C30_Witness ==
  /\ phase = "evaluated" /\ expr = "EX_ASSIGN"
  /\ env.width = 3 /\ env.position = 5
  /\ RhsValue = TypeWrap(BvNot(Stripes), env.unit)
  /\ value.v = RhsValue
  /\ FieldHeld = Reduce(RhsValue, env.width, env.unit)
  /\ FieldHeld /= value.v

====
